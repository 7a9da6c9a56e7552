---------------------------- MODULE RequeryPanel -----------------------------
(***************************************************************************)
(* The lower half of the data page (webui-log DataManagementManager.vue and *)
(* DataRequeryPanel.vue): the state of the requery task, which is polled    *)
(* while a run goes on or is awaited, its schedule, and the learned rules.  *)
(***************************************************************************)
EXTENDS WebPage

CONSTANTS
    RuleFiles,      \* the tables of learned rules that are saved and cleared together
    Minutes         \* what may be typed as the interval and as the days

ASSUME MinutesAssumption == Minutes \subseteq Nat
ASSUME StatusAssumption == None # "running"

Schedule(enabled, interval, days) == [enabled |-> enabled, interval |-> interval, days |-> days]

RequeryServer ==
    [status |-> "idle", config |-> Schedule(FALSE, 5, 1),
     rules |-> [r \in RuleFiles |-> "kept"], lists |-> "counted"]

Actions == {"trigger", "cancel", "save-rules", "clear-rules"}

RequeryFresh ==
    [kind |-> "requery", mounted |-> TRUE, busy |-> {}, available |-> TRUE,
     status |-> None, form |-> Schedule(FALSE, 0, 1),
     pending |-> FALSE, pendingTimer |-> FALSE, poll |-> 0, scheduleTimer |-> FALSE]

Running(p) == p.status = "running"

-----------------------------------------------------------------------------
(* ensureRequeryPolling and setRequeryTriggerPending                         *)
EnsurePolling(p) ==
    [p EXCEPT !.poll = CASE p.pending -> 1000 [] Running(p) /\ ~p.pending -> 5000 [] OTHER -> 0]

(* Mutant: the wait is set without a look at the polling.                    *)
SetPendingOnly(p, active) == [p EXCEPT !.pending = active, !.pendingTimer = active]

SetPending(p, active) ==
    EnsurePolling([p EXCEPT !.pending = active, !.pendingTimer = active])

PendingTimeout ==
    /\ page.pendingTimer
    /\ page' = EnsurePolling([page EXCEPT !.pending = FALSE, !.pendingTimer = FALSE])
    /\ OnlyPage

-----------------------------------------------------------------------------
(* refreshRequeryStatusAndConfig.  Promise.all fails as soon as one of its   *)
(* reads has failed.  A run that started after the trigger ends the wait;    *)
(* that is judged by the clocks of two machines, so it may go either way.    *)
StatusReads == GetAll({"status", "config"})

AskStatus(p) == Raise(p, {"requeryStatusRefreshing"})

RefreshStatus(p) ==
    /\ page' = AskStatus(p)
    /\ Begin("requeryStatus", StatusReads, None, {"requeryStatusRefreshing"})
    /\ UNCHANGED <<server, dialog>>

StatusShown(p, status, config) ==
    [p EXCEPT !.available = TRUE, !.status = status, !.form = config]

StatusKnown(i) ==
    LET p == StatusShown(page, tasks[i].got["status"].val, tasks[i].got["config"].val)
    IN  \/ page' = Lower(SetPending(p, FALSE), i) /\ (Running(p) \/ p.pending)
        \/ page' = Lower(EnsurePolling(p), i) /\ ~Running(p)

(* The plugin is not there (404), or its state could not be read.            *)
StatusUnknown(i) ==
    \/ page' = Lower(SetPending([page EXCEPT !.available = FALSE, !.status = None], FALSE), i)
    \/ page' = Lower([page EXCEPT !.available = TRUE], i)

StatusRead(i) ==
    /\ \/ i \in Replied("requeryStatus") /\ AllGood(i) /\ StatusKnown(i)
       \/ i \in Rejected("requeryStatus", DOMAIN StatusReads) /\ StatusUnknown(i)
    /\ End(i)
    /\ UNCHANGED <<server, dialog>>

RequeryMounted ==
    /\ page' = AskStatus(RequeryFresh)
    /\ Begin("requeryStatus", StatusReads, None, {"requeryStatusRefreshing"})

(* onBeforeUnmount stops the timers that are there; a handler that is still   *)
(* waiting starts new ones.                                                   *)
RequeryUnmounted ==
    [page EXCEPT !.mounted = FALSE, !.pendingTimer = FALSE, !.poll = 0, !.scheduleTimer = FALSE]

RequeryRefresh == page.mounted /\ RefreshStatus(page)
PollFires == page.poll # 0 /\ RefreshStatus(page)

-----------------------------------------------------------------------------
(* triggerRequery, cancelRequery and the two buttons for the learned rules:  *)
(* requeryAction holds the latest one, and any that ends clears it.          *)
Acting(p, action) == [p EXCEPT !.busy = (@ \ Actions) \cup {action}]

ActionOffered(action) ==
    CASE action = "trigger" -> ~Running(page)
      [] action = "cancel"  -> Running(page)
      [] OTHER              -> TRUE

AskAction == \E action \in Actions :
    /\ Clickable /\ page.available /\ action \notin page.busy /\ ActionOffered(action)
    /\ AskFirst("askAction", action)
    /\ UNCHANGED <<page, server>>

(* The server refuses a trigger while a run goes on; here that is one of the  *)
(* faults of the requests.                                                   *)
ActionRequests(action) ==
    CASE action = "trigger"     -> One(Put("status", "running"))
      [] action = "cancel"      -> One(Put("status", "cancelled"))
      [] action = "save-rules"  -> [r \in RuleFiles |-> Set("rules", r, "saved")]
      [] action = "clear-rules" -> [r \in RuleFiles |-> Set("rules", r, "empty")]

ActionAnswered(i) ==
    /\ i \in Replied("askAction")
    /\ \/ ~Reply(i).val /\ End(i) /\ UNCHANGED page
       \/ /\ Reply(i).val
          /\ page' = Acting(page, tasks[i].mem)
          /\ Await(i, "postAction", ActionRequests(tasks[i].mem), tasks[i].mem, Actions)
    /\ UNCHANGED <<server, dialog>>

(* After the POST a trigger waits for its run and a cancel just looks; a     *)
(* trigger that failed waits no more.                                        *)
ActionPosted(i) ==
    LET action == tasks[i].mem
        next == IF action = "trigger" THEN SetPending(page, AllGood(i)) ELSE page
    IN  /\ i \in Replied("postAction")
        /\ \/ /\ action \in {"trigger", "cancel"} /\ AllGood(i)
              /\ page' = AskStatus(next)
              /\ Await(i, "requeryStatus", StatusReads, None, Actions \cup {"requeryStatusRefreshing"})
           \/ /\ action \in {"trigger", "cancel"} /\ ~AllGood(i)
              /\ page' = Lower(next, i) /\ End(i)
           \/ /\ action = "save-rules"
              /\ page' = Lower(page, i) /\ End(i)
           \/ /\ action = "clear-rules"
              /\ page' = Raise(page, {"listStatsRefreshing"})
              /\ Await(i, "ruleCounts", One(Get("lists")), None, Actions \cup {"listStatsRefreshing"})
        /\ UNCHANGED <<server, dialog>>

RuleCountsRead(i) ==
    /\ i \in Replied("ruleCounts")
    /\ page' = Lower(page, i)
    /\ End(i)
    /\ UNCHANGED <<server, dialog>>

-----------------------------------------------------------------------------
(* The schedule: the switch is sent at once, the numbers 1.5 s after the last *)
(* edit.  What is sent is what the form holds at that moment.                 *)
ScheduleValid(form) == (form.enabled => form.interval > 0) /\ form.days > 0

PostSchedule(p) ==
    IF p.available /\ ScheduleValid(p.form)
    THEN /\ page' = Raise(p, {"schedulerSaving"})
         /\ Begin("saveSchedule", One(Put("config", p.form)), None, {"schedulerSaving"})
         /\ UNCHANGED <<server, dialog>>
    ELSE page' = p /\ OnlyPage

ToggleSchedule ==
    /\ Clickable /\ page.available
    /\ PostSchedule([page EXCEPT !.form.enabled = ~@])

EditSchedule == \E n \in Minutes :
    /\ Clickable /\ page.available
    /\ \/ page.form.enabled /\ page' = [page EXCEPT !.form.interval = n, !.scheduleTimer = TRUE]
       \/ page' = [page EXCEPT !.form.days = n, !.scheduleTimer = TRUE]
    /\ OnlyPage

ScheduleFires ==
    /\ page.scheduleTimer
    /\ PostSchedule([page EXCEPT !.scheduleTimer = FALSE])

(* Mutant: the flag is forgotten on the way that reads the state again.      *)
ScheduleSavedForgets(i) ==
    /\ i \in Replied("saveSchedule")
    /\ \/ /\ Reply(i).ok
          /\ page' = AskStatus(page)
          /\ Await(i, "requeryStatus", StatusReads, None, {"requeryStatusRefreshing"})
       \/ ~Reply(i).ok /\ page' = Lower(page, i) /\ End(i)
    /\ UNCHANGED <<server, dialog>>

ScheduleSaved(i) ==
    /\ i \in Replied("saveSchedule")
    /\ \/ /\ Reply(i).ok
          /\ page' = AskStatus(page)
          /\ Await(i, "requeryStatus", StatusReads, None, {"schedulerSaving", "requeryStatusRefreshing"})
       \/ ~Reply(i).ok /\ page' = Lower(page, i) /\ End(i)
    /\ UNCHANGED <<server, dialog>>

-----------------------------------------------------------------------------
(* The task on the server: a run ends, or the scheduler starts one.          *)
ServerRequery ==
    /\ server' = [server EXCEPT !.status = IF @ = "running" THEN "idle" ELSE "running"]
    /\ UNCHANGED <<page, tasks, dialog, spent>>

-----------------------------------------------------------------------------
RequeryEvent ==
    \/ RequeryRefresh \/ PollFires \/ PendingTimeout \/ AskAction
    \/ ToggleSchedule \/ EditSchedule \/ ScheduleFires \/ ServerRequery

RequeryResume(i) ==
    \/ StatusRead(i) \/ ActionAnswered(i) \/ ActionPosted(i) \/ RuleCountsRead(i) \/ ScheduleSaved(i)

=============================================================================
