------------------------------- MODULE AppShell -------------------------------
(***************************************************************************)
(* What surrounds the pages (webui-log App.vue, notice.js and the automatic *)
(* refresh of SystemControlManager.vue): the timer that refreshes the page  *)
(* that is open, the notice at the top, and the button that resets the      *)
(* statistics of the overview.  The shell is there as long as the window    *)
(* is; which page is open is the affair of the module WebLog.               *)
(***************************************************************************)
EXTENDS WebPage

CONSTANT Intervals  \* what may be typed as the interval of the refresh, in seconds

ASSUME IntervalsAssumption == Intervals \subseteq Nat
ASSUME NoticeAssumption == None \notin {"success", "error"}

AtLeastFive(n) == CASE n = 0 -> 15 [] n \in 1..4 -> 5 [] OTHER -> n

ShellServer == [restarts |-> "any"]

(* refreshing counts the intervals that run, refreshTimer is the one that    *)
(* the shell knows of; the same for the notice and its timeouts.             *)
ShellFresh ==
    [kind |-> "shell", mounted |-> TRUE, busy |-> {}, enabled |-> FALSE, interval |-> 15,
     hidden |-> FALSE, refreshTimer |-> FALSE, refreshing |-> 0,
     notice |-> None, noticeTimer |-> FALSE, fading |-> 0, history |-> TRUE, reload |-> FALSE]

-----------------------------------------------------------------------------
(* startAutoRefresh and stopAutoRefresh                                      *)
StopAutoRefresh(p) ==
    [p EXCEPT !.refreshing = IF p.refreshTimer THEN @ - 1 ELSE @, !.refreshTimer = FALSE]

(* Mutant: the interval that runs is not stopped.                            *)
StartAnotherRefresh(p) ==
    IF ~p.enabled \/ p.hidden THEN StopAutoRefresh(p)
    ELSE [p EXCEPT !.refreshing = @ + 1, !.refreshTimer = TRUE]

StartAutoRefresh(p) ==
    LET stopped == StopAutoRefresh(p)
    IN  IF ~p.enabled \/ p.hidden THEN stopped
        ELSE [stopped EXCEPT !.refreshing = @ + 1, !.refreshTimer = TRUE]

(* emitAutoRefreshSettings of the system page and applyAutoRefreshState.     *)
ApplyAutoRefresh(enabled, n) ==
    StartAutoRefresh([page EXCEPT !.enabled = enabled, !.interval = AtLeastFive(n)])

SetAutoRefresh == \E enabled \in BOOLEAN, n \in Intervals :
    /\ Clickable
    /\ enabled # page.enabled \/ n # page.interval
    /\ page' = ApplyAutoRefresh(enabled, n)
    /\ OnlyPage

VisibilityChange ==
    /\ page.mounted
    /\ page' = StartAutoRefresh([page EXCEPT !.hidden = ~@])
    /\ OnlyPage

-----------------------------------------------------------------------------
(* showTopNotice and clearTopNotice                                          *)
StopFading(p) == [p EXCEPT !.fading = IF p.noticeTimer THEN @ - 1 ELSE @, !.noticeTimer = FALSE]

WithNotice(p, message) ==
    [StopFading(p) EXCEPT !.notice = message, !.fading = @ + 1, !.noticeTimer = TRUE]

WithoutNotice(p) == [StopFading(p) EXCEPT !.notice = None]

(* A handler of the page that is open reports what it did, or starts anew.   *)
PageReports == \E p \in {WithNotice(page, "success"), WithNotice(page, "error"), WithoutNotice(page)} :
    /\ page.mounted
    /\ page' = p
    /\ OnlyPage

NoticeFades ==
    /\ page.fading > 0
    /\ page' = [page EXCEPT !.notice = None, !.fading = @ - 1, !.noticeTimer = FALSE]
    /\ OnlyPage

-----------------------------------------------------------------------------
(* triggerOverviewReset looks at its flag before it asks and raises it after *)
(* the answer.  The window is reloaded four seconds later.                   *)
TriggerOverviewReset ==
    /\ Clickable /\ "overviewResetting" \notin page.busy
    /\ AskFirst("askOverviewReset", None)
    /\ UNCHANGED <<page, server>>

OverviewResetAnswered(i) ==
    /\ i \in Replied("askOverviewReset")
    /\ \/ /\ Reply(i).val
          /\ page' = Raise(page, {"overviewResetting"})
          /\ Await(i, "resetOverview", One(Call("restarts", None)), None, {"overviewResetting"})
       \/ ~Reply(i).val /\ page' = page /\ End(i)
    /\ UNCHANGED <<server, dialog>>

OverviewResetPosted(i) ==
    LET p == IF Reply(i).ok THEN WithNotice([page EXCEPT !.history = FALSE, !.reload = TRUE], "success")
             ELSE WithNotice(page, "error")
    IN  /\ i \in Replied("resetOverview")
        /\ page' = Lower(p, i)
        /\ End(i)
        /\ UNCHANGED <<server, dialog>>

(* The settings of the refresh are kept by the browser; the rest is lost.    *)
ReloadShell ==
    /\ page.reload
    /\ page' = [ShellFresh EXCEPT !.mounted = FALSE, !.enabled = page.enabled, !.interval = page.interval,
                                  !.hidden = page.hidden, !.history = page.history]
    /\ tasks' = Nothing
    /\ dialog' = None
    /\ UNCHANGED <<server, spent>>

(* onMounted: loadAutoRefreshState.  The appearance is the affair of the     *)
(* module AppearancePanel.                                                   *)
ShellMounted ==
    /\ page' = StartAutoRefresh([page EXCEPT !.mounted = TRUE])
    /\ UNCHANGED <<tasks, spent>>

-----------------------------------------------------------------------------
ShellEvent ==
    \/ SetAutoRefresh \/ VisibilityChange \/ PageReports \/ NoticeFades
    \/ TriggerOverviewReset \/ ReloadShell

ShellResume(i) == OverviewResetAnswered(i) \/ OverviewResetPosted(i)

=============================================================================
