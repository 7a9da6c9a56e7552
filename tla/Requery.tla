------------------------------ MODULE Requery ------------------------------
(****************************************************************************)
(* The plugin that asks again for every learned name                        *)
(* (plugin/executable/requery), over the promise of the plugin that learns  *)
(* them.  A task has the table saved, reads the file, has the table         *)
(* flushed, resolves every name through the server itself, so that it is    *)
(* learned again, and has the table saved.  At most one task is meant to    *)
(* run; its state is kept in the file of the configuration.                 *)
(*                                                                          *)
(* One step per critical section of p.mu.  The pair of queries sent for a   *)
(* name is one query; save_rules and flush_rules hold one URL each, and     *)
(* source_files one file.  Task t's call of a URL is request t of the table, *)
(* which is served to its end when the task gives the call up.              *)
(****************************************************************************)
EXTENDS LearnedTable, Naturals

CONSTANTS
    Tasks,     \* the tasks that may be started; their number is a bound
    MaxTimers, \* bound: timers pending when the schedule is updated
    MaxUpdates, \* bound: updates of the schedule
    MaxFaults, \* bound: failed saves of the configuration
    MaxCrashes \* bound: crashes

ASSUME RequeryBounds ==
    MaxTimers \in Nat /\ MaxUpdates \in Nat /\ MaxFaults \in Nat /\ MaxCrashes \in Nat

ASSUME TasksAsk == Tasks \subseteq Requests

VARIABLES
    taskState,   \* config.Status.TaskState
    schedule,    \* config.Scheduler is enabled and valid
    saved,       \* both, as in the file of the configuration
    taskCancel,  \* the task that taskCancel cancels, or NoTask
    pc,          \* where each task is
    cancelled,   \* tasks whose context is cancelled
    domains,     \* names each task still has to ask
    asking,      \* its queries in flight
    timers,      \* timers pending
    firing,      \* timers fired that have not been set again
    latest,      \* history: the task started last, if it has not ended
    merged,      \* history: names each task has read, as long as none of its
                 \* queries is lost and nobody else flushes the table
    applied,     \* history: the last update of the schedule was applied
    updates, faults, crashes

taskVars == <<pc, cancelled, domains, asking, merged>>
statusVars == <<taskState, schedule, saved, taskCancel>>
timerVars == <<timers, firing, applied>>
spent == <<updates, crashes>>
requeryVars == <<taskVars, statusVars, timerVars, latest, faults, spent>>
vars == <<tableVars, requeryVars>>

NoTask == "no task"

Calls == {"save", "saving", "flush", "flushing", "final save", "final saving"}
Live == {t \in Tasks : pc[t] \notin {"new", "done"}}

NoNames == [t \in Tasks |-> {}]

Init ==
    /\ TableInit
    /\ taskState = "idle" /\ schedule = FALSE /\ taskCancel = NoTask
    /\ saved = [state |-> "idle", schedule |-> FALSE]
    /\ pc = [t \in Tasks |-> "new"] /\ latest = NoTask
    /\ cancelled = {}
    /\ domains = NoNames /\ asking = NoNames /\ merged = NoNames
    /\ timers = 0 /\ firing = 0 /\ applied = TRUE
    /\ updates = 0 /\ faults = 0 /\ crashes = 0

-----------------------------------------------------------------------------
\* saveConfigUnlocked writes a file aside and renames it; ok tells its outcome.
SaveConfig(ok) ==
    IF ok THEN /\ saved' = [state |-> taskState', schedule |-> schedule']
               /\ UNCHANGED faults
          ELSE /\ faults < MaxFaults /\ faults' = faults + 1
               /\ UNCHANGED saved

Move(t, p) == pc' = [pc EXCEPT ![t] = p]

NewTasks == {t \in Tasks : pc[t] = "new"}

Started(t) ==
    /\ taskState' = "running" /\ taskCancel' = t
    /\ latest' = t /\ Move(t, "save")

\* Mutant: the task is started before its state is saved.
StartTaskUnsaved ==
    /\ taskState # "running" /\ NewTasks # {}
    /\ UNCHANGED <<schedule, saved, faults>>
    /\ \E t \in NewTasks : Started(t)

\* startTaskLocked.
StartTask ==
    /\ taskState # "running" /\ NewTasks # {}
    /\ UNCHANGED schedule
    /\ \/ (\E t \in NewTasks : Started(t)) /\ SaveConfig(TRUE)
       \/ /\ taskState' = "idle" /\ SaveConfig(FALSE)
          /\ taskCancel' = NoTask
          /\ UNCHANGED <<latest, pc>>

Trigger ==
    /\ StartTask
    /\ UNCHANGED <<tableVars, cancelled, domains, asking, merged, timerVars, spent>>

\* handleCancelTask.
Cancel ==
    /\ taskState = "running" /\ taskCancel # NoTask
    /\ cancelled' = cancelled \cup {taskCancel}
    /\ UNCHANGED <<tableVars, pc, domains, asking, merged, statusVars, timerVars, latest,
                   faults, spent>>

-----------------------------------------------------------------------------
(* runTask.                                                                 *)

\* setFailedState and setCancelledState do not save, nor look at the state.
StopsAs(t, state) ==
    /\ Move(t, "leave") /\ taskState' = state
    /\ UNCHANGED <<tableVars, cancelled, domains, asking, merged, schedule, saved, taskCancel,
                   timerVars, latest, faults, spent>>

TaskStep(t, p) ==
    /\ Move(t, p)
    /\ UNCHANGED <<cancelled, asking, statusVars, timerVars, latest, faults, spent>>

\* Mutant: the task does not wait for the table to be flushed.
CallServedOnly(t) ==
    /\ \/ pc[t] = "save" /\ TaskStep(t, "saving") /\ Ask(t, "save")
       \/ pc[t] = "flush" /\ TaskStep(t, "resend") /\ Ask(t, "flush")
       \/ pc[t] = "final save" /\ TaskStep(t, "final saving") /\ Ask(t, "save")
    /\ UNCHANGED <<domains, merged>>

\* callURLs: the request reaches the server.
CallServed(t) ==
    /\ \/ pc[t] = "save" /\ TaskStep(t, "saving") /\ Ask(t, "save")
       \/ pc[t] = "flush" /\ TaskStep(t, "flushing") /\ Ask(t, "flush")
       \/ pc[t] = "final save" /\ TaskStep(t, "final saving") /\ Ask(t, "save")
    /\ UNCHANGED <<domains, merged>>

\* It answers, and the task goes on.
CallReturns(t) ==
    /\ Collect(t)
    /\ \/ pc[t] = "saving" /\ TaskStep(t, "merge")
       \/ pc[t] = "flushing" /\ TaskStep(t, "resend")
       \/ pc[t] = "final saving" /\ TaskStep(t, "leave")
    /\ UNCHANGED <<domains, merged>>

\* The call fails, times out after 30 s, or sees the context cancelled.
CallFails(t) == pc[t] \in Calls /\ StopsAs(t, "failed")

\* mergeAndFilterDomains.  It ends early when the task is cancelled, and when a
\* source file cannot be opened or read.
Merge(t) ==
    /\ pc[t] = "merge"
    /\ \/ StopsAs(t, "failed")
       \/ /\ t \notin cancelled
          /\ TaskStep(t, IF file = {} THEN "leave" ELSE "flush")
          /\ domains' = [domains EXCEPT ![t] = file]
          /\ merged' = [merged EXCEPT ![t] = file]
          /\ UNCHANGED <<tableVars>>

\* resendDNSQueries: the next name; the progress is saved after the last one.
Resend(t, d) ==
    /\ pc[t] = "resend" /\ d \in domains[t]
    /\ domains' = [domains EXCEPT ![t] = @ \ {d}]
    /\ asking' = [asking EXCEPT ![t] = @ \cup {d}]
    /\ UNCHANGED <<tableVars, pc, cancelled, merged, taskState, schedule, taskCancel,
                   timerVars, latest, spent>>
    /\ IF domains[t] = {d} THEN SaveConfig(TRUE) \/ SaveConfig(FALSE)
                           ELSE UNCHANGED <<saved, faults>>

\* The query reaches the plugin that learns names.
QueryRecorded(t, d) ==
    /\ d \in asking[t] /\ asking' = [asking EXCEPT ![t] = @ \ {d}]
    /\ Learn(d)
    /\ UNCHANGED <<pc, cancelled, domains, merged, statusVars, timerVars, latest, faults,
                   spent>>

\* It is lost, times out after 2 s, or is given up.
QueryLost(t, d) ==
    /\ d \in asking[t] /\ asking' = [asking EXCEPT ![t] = @ \ {d}]
    /\ merged' = [merged EXCEPT ![t] = {}]
    /\ UNCHANGED <<tableVars, pc, cancelled, domains, statusVars, timerVars, latest,
                   faults, spent>>

\* Every name has been asked, and wg.Wait returns.
AllAsked(t) ==
    /\ pc[t] = "resend" /\ domains[t] = {} /\ asking[t] = {}
    /\ TaskStep(t, "final save")
    /\ UNCHANGED <<tableVars, domains, merged>>

\* ctx.Done is seen between two names; wg.Wait comes first.
SeeCancelled(t) ==
    /\ pc[t] = "resend" /\ domains[t] # {} /\ t \in cancelled
    /\ TaskStep(t, "cancelling")
    /\ UNCHANGED <<tableVars, domains, merged>>

Cancelled(t) == pc[t] = "cancelling" /\ asking[t] = {} /\ StopsAs(t, "cancelled")

\* A goroutine that ends takes its variables with it.
Forgotten(t) ==
    /\ Move(t, "done") /\ cancelled' = cancelled \ {t}
    /\ domains' = [domains EXCEPT ![t] = {}] /\ merged' = [merged EXCEPT ![t] = {}]
    /\ latest' = IF latest = t THEN NoTask ELSE latest
    /\ UNCHANGED <<tableVars, asking, timerVars, spent>>

\* Mutant: the deferred function leaves the state of the task alone.
CleanupKeepsState(t) ==
    /\ pc[t] = "leave" /\ Forgotten(t)
    /\ taskCancel' = NoTask
    /\ UNCHANGED <<taskState, schedule>>
    /\ SaveConfig(TRUE) \/ SaveConfig(FALSE)

\* The deferred function: it may find the state of a task started since.
Cleanup(t) ==
    /\ pc[t] = "leave" /\ Forgotten(t)
    /\ taskState' = IF taskState = "running" THEN "idle" ELSE taskState
    /\ taskCancel' = NoTask
    /\ UNCHANGED schedule
    /\ SaveConfig(TRUE) \/ SaveConfig(FALSE)

-----------------------------------------------------------------------------
(* The schedule.                                                            *)

\* handleUpdateScheduler: a failed save leaves the change in memory only.
UpdateScheduler(valid) ==
    /\ timers + firing < MaxTimers /\ updates < MaxUpdates /\ updates' = updates + 1
    /\ schedule' = valid /\ UNCHANGED <<taskState, taskCancel>>
    /\ \/ SaveConfig(TRUE) /\ timers' = timers + (IF valid THEN 1 ELSE 0) /\ applied' = TRUE
       \/ SaveConfig(FALSE) /\ UNCHANGED timers /\ applied' = FALSE
    /\ UNCHANGED <<tableVars, taskVars, firing, latest, crashes>>

\* A timer fires: jobFunc, whether the schedule is still enabled or not.
TimerFires ==
    /\ timers > 0 /\ timers' = timers - 1 /\ firing' = firing + 1
    /\ \/ StartTask
       \/ /\ taskState = "running" \/ NewTasks = {}
          /\ UNCHANGED <<statusVars, latest, pc, faults>>
    /\ UNCHANGED <<tableVars, cancelled, domains, asking, merged, applied, spent>>

\* Mutant: the timer is not set again when a task is running.
RescheduleUnlessRunning ==
    /\ firing > 0 /\ firing' = firing - 1
    /\ timers' = timers + (IF schedule /\ taskState # "running" THEN 1 ELSE 0)
    /\ UNCHANGED <<tableVars, taskVars, statusVars, applied, latest, faults, spent>>

\* rescheduleTasks, after the lock was released.
Reschedule ==
    /\ firing > 0 /\ firing' = firing - 1
    /\ timers' = timers + (IF schedule THEN 1 ELSE 0)
    /\ UNCHANGED <<tableVars, taskVars, statusVars, applied, latest, faults, spent>>

-----------------------------------------------------------------------------
(* The rest of the process.                                                 *)

\* The table at work while tasks run.  Somebody else's flush spoils what the
\* tasks had recorded.
Table ==
    /\ \/ (\E d \in Domains : Learn(d)) /\ UNCHANGED merged
       \/ Dump /\ UNCHANGED merged
       \/ \E r \in Requests : Flush(r) /\ merged' = [t \in Tasks |-> IF t = r THEN merged[t] ELSE {}]
       \/ \E r \in Requests : Answer(r) /\ UNCHANGED merged
       \/ \E r \in Requests \ Tasks : (Ask(r, "flush") \/ Collect(r)) /\ UNCHANGED merged
    /\ UNCHANGED <<pc, cancelled, domains, asking, statusVars, timerVars, latest, faults, spent>>

\* A crash, and a new process: newRequery, on the file it finds.
Restart ==
    /\ crashes < MaxCrashes /\ crashes' = crashes + 1
    /\ Reload
    /\ LET found == IF saved.state = "running" THEN [saved EXCEPT !.state = "failed"]
                                               ELSE saved
       IN /\ taskState' = found.state /\ schedule' = found.schedule
          /\ saved' \in {saved, found}
          /\ timers' = IF found.schedule THEN 1 ELSE 0
    /\ taskCancel' = NoTask /\ firing' = 0 /\ applied' = TRUE
    /\ pc' = [t \in Tasks |-> IF pc[t] = "new" THEN "new" ELSE "done"]
    /\ cancelled' = {}
    /\ domains' = NoNames /\ asking' = NoNames /\ merged' = NoNames
    /\ latest' = NoTask /\ UNCHANGED <<updates, faults>>

TaskRuns(t) ==
    \/ CallServed(t) \/ CallReturns(t) \/ CallFails(t) \/ Merge(t)
    \/ AllAsked(t) \/ SeeCancelled(t) \/ Cancelled(t) \/ Cleanup(t)
    \/ \E d \in Domains : Resend(t, d) \/ QueryRecorded(t, d) \/ QueryLost(t, d)

Next ==
    \/ Table \/ Restart
    \/ Trigger \/ Cancel \/ TimerFires \/ Reschedule
    \/ \E valid \in BOOLEAN : UpdateScheduler(valid)
    \/ \E t \in Tasks : TaskRuns(t)

Spec == Init /\ [][Next]_vars

-----------------------------------------------------------------------------
TypeOK ==
    /\ table \subseteq Domains /\ file \subseteq Domains /\ on \in BOOLEAN
    /\ request \in [Requests -> {"idle", "flush", "save", "answered"}]
    /\ taskState \in {"idle", "running", "failed", "cancelled"} /\ schedule \in BOOLEAN
    /\ saved \in [state : {"idle", "running", "failed", "cancelled"}, schedule : BOOLEAN]
    /\ taskCancel \in Tasks \cup {NoTask} /\ cancelled \subseteq Tasks
    /\ pc \in [Tasks -> Calls \cup {"new", "merge", "resend", "cancelling", "leave", "done"}]
    /\ domains \in [Tasks -> SUBSET Domains] /\ asking \in [Tasks -> SUBSET Domains]
    /\ merged \in [Tasks -> SUBSET Domains]
    /\ timers \in Nat /\ firing \in Nat /\ applied \in BOOLEAN
    /\ latest \in Tasks \cup {NoTask} /\ faults \in 0 .. MaxFaults

\* docs/releases/v0.3.7: the running state is persisted before the goroutine
\* runs, so that a start after a crash finds it.
RunningIsPersisted == taskState = "running" => saved.state = "running"

\* While the plugin says that a task is running, one is, and a request to
\* cancel reaches the last one started.
RunningIsCancellable ==
    taskState = "running" => taskCancel = latest /\ latest \in Live

\* A run that was not disturbed gives back every name it had read before the
\* table was flushed.
RunRestores ==
    \A t \in Tasks : pc[t] \in {"final save", "final saving"} => merged[t] \subseteq table

\* An enabled schedule always has a timer: the chain of timers never breaks.
ScheduleIsAlive == schedule /\ applied => timers + firing > 0

=============================================================================
