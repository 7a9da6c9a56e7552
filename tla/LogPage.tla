------------------------------- MODULE LogPage -------------------------------
(***************************************************************************)
(* The query log page (webui-log QueryManager.vue): the paged log with its  *)
(* search box and detail window, the client aliases, and the diagnostic     *)
(* capture.  A row of the table stands for one page of the log, named by the *)
(* query it was asked with and its number; the table is the set of them.    *)
(***************************************************************************)
EXTENDS WebPage

CONSTANTS
    Clients,        \* client addresses
    Aliases,        \* names the user may give them
    Traces,         \* trace ids of captured queries
    Searches,       \* texts typed into the search box; they may be aliases
    MaxPages        \* the pages that the log fills

ASSUME MaxPagesAssumption == MaxPages \in Nat \ {0}

Live == "live"
Diagnostic == "diagnostic"
Raw == "raw"
Untraced == "untraced"

(* The parts of a visit of the live log: its pages and details, its aliases. *)
Browse == "browse"
Rename == "rename"

LogServer ==
    [pages |-> MaxPages, aliases |-> [c \in Clients |-> CHOOSE a \in Aliases : TRUE], groups |-> {},
     clients |-> Clients, capturing |-> FALSE, capture |-> {}]

LogFresh ==
    [kind |-> "log", mounted |-> TRUE, busy |-> {}, mode |-> Live, visit |-> Browse, listening |-> FALSE,
     search |-> None, wanted |-> None, rows |-> {}, current |-> 1, total |-> 0, detail |-> None,
     aliases |-> Nothing, aliasOpen |-> FALSE, aliasRows |-> Nothing, groups |-> {},
     captured |-> {}, requests |-> {}, selectedKey |-> Raw, showFalse |-> FALSE]

IsLive == page.mode = Live

-----------------------------------------------------------------------------
(* getIpMatchesByAlias, parseSearchKeyword: a text that is an alias is asked *)
(* for as the addresses that have it, any other as it stands.                *)
IpMatches(p) == {c \in DOMAIN p.aliases : p.aliases[c] = p.search}
LogQuery(p) == [clients |-> IpMatches(p), text |-> IF IpMatches(p) = {} THEN p.search ELSE None]

(* loadLogs up to its request.  Nothing tells a later load from this one.    *)
AskLogs(p, n, append) ==
    /\ page' = Raise(p, {"loading"})
    /\ Begin("loadLogs", One(Get("pages")),
             [query |-> LogQuery(p), number |-> n, append |-> append], {"loading"})
    /\ UNCHANGED <<server, dialog>>

RefreshLogs(p) == AskLogs(p, 1, FALSE)

(* The rest of loadLogs: only a load that replaces the rows closes the detail.*)
(* Mutant: rows are replaced under the open detail.                          *)
LogsShownUnder(i) ==
    LET got == <<tasks[i].mem.query, tasks[i].mem.number>>
        paged == [page EXCEPT !.current = tasks[i].mem.number, !.total = Reply(i).val]
    IN  [paged EXCEPT !.rows = IF tasks[i].mem.append THEN @ \cup {got} ELSE {got}]

LogsShown(i) ==
    LET got == <<tasks[i].mem.query, tasks[i].mem.number>>
        paged == [page EXCEPT !.current = tasks[i].mem.number, !.total = Reply(i).val]
    IN  IF tasks[i].mem.append THEN [paged EXCEPT !.rows = @ \cup {got}]
        ELSE [paged EXCEPT !.rows = {got}, !.detail = None]

LogsLoaded(i) ==
    /\ i \in Replied("loadLogs")
    /\ page' = Lower(IF Reply(i).ok THEN LogsShown(i) ELSE page, i)
    /\ End(i)
    /\ UNCHANGED <<server, dialog>>

(* The search form: a typed text, or the button that clears it.              *)
SearchLogs == \E text \in Searches \cup {None} :
    /\ Clickable /\ IsLive /\ page.detail = None /\ ~page.aliasOpen /\ "loading" \notin page.busy
    /\ RefreshLogs([page EXCEPT !.search = text, !.wanted = None])

LoadMoreLogs ==
    /\ Clickable /\ IsLive /\ page.detail = None /\ ~page.aliasOpen /\ "loading" \notin page.busy
    /\ Visiting(Browse) /\ page.current < page.total
    /\ AskLogs(page, page.current + 1, TRUE)

-----------------------------------------------------------------------------
(* The detail window and its "filter" buttons, which are never disabled by a *)
(* load that is under way.                                                   *)
OpenLogDetail == \E row \in page.rows :
    /\ Clickable /\ IsLive /\ Visiting(Browse) /\ page.detail = None
    /\ page' = [page EXCEPT !.detail = row]
    /\ OnlyPage

CloseLogDetail ==
    /\ Clickable /\ page.detail # None
    /\ page' = [page EXCEPT !.detail = None]
    /\ OnlyPage

ApplyQuickFilter == \E text \in Searches :
    /\ Clickable /\ page.detail # None
    /\ RefreshLogs([page EXCEPT !.search = text, !.wanted = None, !.detail = None])

(* handleOpenLogFilter, which only a page that listens for the event runs;   *)
(* it then also loads its log.  wanted is what the overview asked for.       *)
WithFilter(p, text) == IF p.listening /\ p.mode = Live THEN [p EXCEPT !.search = text] ELSE p

-----------------------------------------------------------------------------
(* The client aliases.  A failed read is taken for an empty map.             *)
AliasRowsOf(map, ips) == [c \in DOMAIN map \cup ips |-> IF c \in DOMAIN map THEN map[c] ELSE None]
NamedRows(rows) == [c \in {x \in DOMAIN rows : rows[x] # None} |-> rows[c]]

OpenAliasManager ==
    /\ Clickable /\ IsLive /\ Visiting(Rename) /\ ~page.aliasOpen
    /\ page' = Raise([page EXCEPT !.aliasOpen = TRUE], {"aliasLoading"})
    /\ Begin("openAliasManager", GetAll({"aliases", "clients"}), None, {"aliasLoading"})
    /\ UNCHANGED <<server, dialog>>

AliasesRead(i) ==
    LET map == Settled(i, "aliases", Nothing)
    IN  /\ i \in Replied("openAliasManager")
        /\ page' = Lower([page EXCEPT !.aliases = map,
                                      !.aliasRows = AliasRowsOf(map, Settled(i, "clients", {}))], i)
        /\ End(i)
        /\ UNCHANGED <<server, dialog>>

CloseAliasManager ==
    /\ Clickable /\ page.aliasOpen
    /\ page' = [page EXCEPT !.aliasOpen = FALSE, !.aliasRows = Nothing]
    /\ OnlyPage

(* A row's name is edited in place; addManualAlias edits or adds one.        *)
EditAlias == \E c \in Clients, a \in Aliases \cup {None} :
    /\ Clickable /\ page.aliasOpen
    /\ c \in DOMAIN page.aliasRows \/ a # None
    /\ page' = [page EXCEPT !.aliasRows = Extend(@, c, a)]
    /\ OnlyPage

AliasButtons == Clickable /\ page.aliasOpen /\ page.busy \cap {"aliasLoading", "aliasSaving"} = {}

SaveAliases ==
    /\ AliasButtons
    /\ page' = Raise(page, {"aliasSaving"})
    /\ Begin("saveAliases", One(Put("aliases", NamedRows(page.aliasRows))), None, {"aliasSaving"})
    /\ UNCHANGED <<server, dialog>>

(* onImportAliases reads a file, here with one alias, and merges it into the  *)
(* aliases the page knows by then.                                           *)
ImportAliases == \E c \in Clients, a \in Aliases :
    /\ AliasButtons
    /\ Begin("readAliasFile", One(Call("file", None)), [client |-> c, name |-> a], {})
    /\ UNCHANGED <<page, server, dialog>>

AliasFileRead(i) ==
    LET merged == Extend(page.aliases, tasks[i].mem.client, tasks[i].mem.name)
    IN  /\ i \in Replied("readAliasFile")
        /\ \/ Reply(i).ok /\ Await(i, "importAliases", One(Put("aliases", merged)), None, {})
           \/ ~Reply(i).ok /\ End(i)
        /\ UNCHANGED <<page, server, dialog>>

AliasesPut(i) ==
    LET map == tasks[i].ask["only"].val
    IN  /\ i \in Replied("saveAliases") \cup Replied("importAliases")
        /\ page' = Lower(IF Reply(i).ok
                         THEN [page EXCEPT !.aliases = map, !.aliasRows = AliasRowsOf(map, DOMAIN @)]
                         ELSE page, i)
        /\ End(i)
        /\ UNCHANGED <<server, dialog>>

-----------------------------------------------------------------------------
(* The diagnostic capture.  processDiagnosticLogs groups the captured lines  *)
(* by trace id and goes back to the raw view.                                *)
Diagnosed(p, lines) ==
    [p EXCEPT !.captured = lines, !.requests = lines \ {Untraced}, !.selectedKey = Raw, !.showFalse = FALSE]

StartCapture ==
    /\ Clickable /\ ~IsLive /\ "loading" \notin page.busy
    /\ page' = Raise(page, {"loading"})
    /\ Begin("startCapture", One(Put("capturing", TRUE)), None, {"loading"})
    /\ UNCHANGED <<server, dialog>>

AskCapture ==
    /\ page' = Raise(page, {"loading"})
    /\ Begin("fetchCapture", One(Get("capture")), None, {"loading"})
    /\ UNCHANGED <<server, dialog>>

FetchCaptureLogs ==
    /\ Clickable /\ ~IsLive /\ "loading" \notin page.busy
    /\ AskCapture

CaptureStarted(i) ==
    /\ i \in Replied("startCapture")
    /\ page' = Lower(page, i)
    /\ End(i)
    /\ UNCHANGED <<server, dialog>>

CaptureFetched(i) ==
    /\ i \in Replied("fetchCapture")
    /\ page' = Lower(IF Reply(i).ok THEN Diagnosed(page, Reply(i).val) ELSE page, i)
    /\ End(i)
    /\ UNCHANGED <<server, dialog>>

(* activeDiagnosticRequest and structuredItems: the lines of the request that *)
(* is selected.  The request list offers it and the raw view.                *)
ActiveRequest == {page.selectedKey} \cap page.requests
StructuredItems == {line \in page.captured : line \in ActiveRequest}

SelectDiagnostic == \E k \in page.requests \cup {Raw} :
    /\ Clickable /\ ~IsLive
    /\ page' = [page EXCEPT !.selectedKey = k]
    /\ OnlyPage

ToggleFalseLogs ==
    /\ Clickable /\ ~IsLive /\ ActiveRequest # {}
    /\ page' = [page EXCEPT !.showFalse = ~@]
    /\ OnlyPage

-----------------------------------------------------------------------------
(* onMounted waits for the aliases and the special groups before the page    *)
(* loads its log and starts to listen for events.                            *)
LogMountReads == GetAll({"aliases", "groups"})

LogMounted == \E mode \in {Live, Diagnostic}, visit \in {Browse, Rename} :
    /\ page' = [LogFresh EXCEPT !.mode = mode, !.visit = visit]
    /\ Begin("logMount", LogMountReads, None, {})

LogUnmounted == [page EXCEPT !.mounted = FALSE, !.listening = FALSE]

LogReady(i) ==
    LET known == [page EXCEPT !.aliases = Settled(i, "aliases", Nothing),
                              !.groups = Settled(i, "groups", {}),
                              !.listening = TRUE]
    IN  /\ i \in Replied("logMount")
        /\ IF IsLive
           THEN /\ page' = Raise(known, {"loading"})
                /\ Await(i, "loadLogs", One(Get("pages")),
                         [query |-> LogQuery(known), number |-> 1, append |-> FALSE], {"loading"})
           ELSE page' = known /\ End(i)
        /\ UNCHANGED <<server, dialog>>

(* A page that is left before LogReady starts to listen when nobody will     *)
(* stop it: it goes on loading at every refresh.                             *)
LogRefresh ==
    /\ page.listening
    /\ IF IsLive THEN RefreshLogs(page) ELSE AskCapture

(* While a capture runs, queries leave lines with and without a trace id.    *)
QueryCaptured == \E line \in Traces \cup {Untraced} :
    /\ server.capturing
    /\ server' = [server EXCEPT !.capture = @ \cup {line}]
    /\ UNCHANGED <<page, tasks, dialog, spent>>

-----------------------------------------------------------------------------
LogEvent ==
    \/ SearchLogs \/ LoadMoreLogs \/ OpenLogDetail \/ CloseLogDetail \/ ApplyQuickFilter
    \/ OpenAliasManager \/ CloseAliasManager \/ EditAlias \/ SaveAliases \/ ImportAliases
    \/ StartCapture \/ FetchCaptureLogs \/ SelectDiagnostic \/ ToggleFalseLogs
    \/ LogRefresh \/ QueryCaptured

LogResume(i) ==
    \/ LogsLoaded(i) \/ AliasesRead(i) \/ AliasFileRead(i) \/ AliasesPut(i)
    \/ CaptureStarted(i) \/ CaptureFetched(i) \/ LogReady(i)

=============================================================================
