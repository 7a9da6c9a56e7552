--------------------------- MODULE Requery_proofs ---------------------------
(* Theorems about Requery, for every set of names, of tasks and of other    *)
(* users of the table, and every value of the bounds.  The state of a task, *)
(* its cancel function and the file change together under p.mu, so three of *)
(* the four invariants keep themselves.  The fourth, that a run restores    *)
(* what it has read, holds at its end because of what holds on the way      *)
(* there (Restoring): before the flush a name read is still to be asked,    *)
(* and after it a name is to be asked, in flight, or back in the table.     *)
EXTENDS Requery, TLAPS

States == {"idle", "running", "failed", "cancelled"}
Places == Calls \cup {"new", "merge", "resend", "cancelling", "leave", "done"}
Sure == {"final save", "final saving"}

\* Where the names are that task t has read.
Restores(t) ==
    /\ pc[t] \in {"flush", "flushing"} => merged[t] \subseteq domains[t]
    /\ pc[t] \in Sure \cup {"resend"} =>
          request[t] # "flush" /\ merged[t] \subseteq table \cup domains[t] \cup asking[t]
    /\ pc[t] \in Sure => domains[t] = {} /\ asking[t] = {}

Restoring == \A t \in Tasks : Restores(t)

IInv ==
    /\ TypeOK /\ RunningIsPersisted /\ RunningIsCancellable /\ ScheduleIsAlive
    /\ Restoring

-----------------------------------------------------------------------------
LEMMA InitInv == Init => IInv
<1> SUFFICES ASSUME Init PROVE IInv
  OBVIOUS
<1>1. TypeOK
  <2>1. request \in [Requests -> {"idle", "flush", "save", "answered"}]
    BY DEF Init, TableInit
  <2>2. /\ pc \in [Tasks -> Calls \cup {"new", "merge", "resend", "cancelling", "leave", "done"}]
        /\ domains \in [Tasks -> SUBSET Domains] /\ asking \in [Tasks -> SUBSET Domains]
        /\ merged \in [Tasks -> SUBSET Domains]
    BY DEF Init, NoNames
  <2>3. faults \in 0 .. MaxFaults /\ timers \in Nat /\ firing \in Nat
    BY RequeryBounds DEF Init
  <2> QED
    BY <2>1, <2>2, <2>3 DEF Init, TableInit, TypeOK
<1>2. RunningIsPersisted /\ RunningIsCancellable /\ ScheduleIsAlive
  BY DEF Init, RunningIsPersisted, RunningIsCancellable, ScheduleIsAlive
<1>3. Restoring
  BY DEF Init, Restoring, Restores, Sure
<1> QED
  BY <1>1, <1>2, <1>3 DEF IInv

-----------------------------------------------------------------------------
(* What the steps are made of.                                              *)

\* A save that succeeds writes what memory holds, one that fails nothing.
LEMMA SaveConfigTyped ==
    ASSUME TypeOK, NEW ok \in BOOLEAN, SaveConfig(ok),
           taskState' \in States, schedule' \in BOOLEAN
    PROVE  /\ saved' \in [state : States, schedule : BOOLEAN]
           /\ faults' \in 0 .. MaxFaults
           /\ saved' = saved \/ saved'.state = taskState'
<1>1. CASE ok
  BY <1>1 DEF SaveConfig, TypeOK, States
<1>2. CASE ~ ok
  <2>1. faults \in 0 .. MaxFaults /\ faults < MaxFaults /\ faults' = faults + 1 /\ saved' = saved
    BY <1>2 DEF SaveConfig, TypeOK
  <2> QED
    BY <2>1, RequeryBounds DEF TypeOK, States
<1> QED
  BY <1>1, <1>2

LEMMA MoveTyped ==
    ASSUME TypeOK, NEW t \in Tasks, NEW p \in Places, Move(t, p)
    PROVE  /\ pc' \in [Tasks -> Places]
           /\ \A u \in Tasks : pc'[u] = IF u = t THEN p ELSE pc[u]
BY DEF TypeOK, Move, Places

\* The steps of the table keep its types, and only a flush takes a name away.
LEMMA TableTyped ==
    ASSUME TypeOK, NEW r \in Requests, NEW what \in Asks, NEW d \in Domains,
           \/ Learn(d) \/ Dump \/ Ask(r, what) \/ Flush(r) \/ Answer(r) \/ Collect(r)
           \/ UNCHANGED tableVars
    PROVE  /\ table' \subseteq Domains /\ file' \subseteq Domains /\ on' \in BOOLEAN
           /\ request' \in [Requests -> {"idle", "flush", "save", "answered"}]
BY DEF TypeOK, Learn, Dump, Ask, Flush, Answer, Collect, Becomes, tableVars, Asks

\* A task that a step leaves alone, while the table loses nothing.
LEMMA OthersRestore ==
    ASSUME Restoring, NEW u \in Tasks,
           pc'[u] = pc[u], domains'[u] = domains[u], asking'[u] = asking[u],
           merged'[u] = merged[u], table \subseteq table',
           request'[u] = request[u] \/ request'[u] # "flush"
    PROVE  Restores(u)'
BY DEF Restoring, Restores, Sure

\* The state of the task, its cancel function and the schedule stay, and no
\* task starts or ends.
LEMMA StatusKept ==
    ASSUME IInv, UNCHANGED <<taskState, schedule, taskCancel, latest, timers, firing, applied>>,
           \A t \in Tasks : pc[t] \notin {"new", "done"} => pc'[t] \notin {"new", "done"},
           saved' = saved \/ saved'.state = taskState'
    PROVE  RunningIsPersisted' /\ RunningIsCancellable' /\ ScheduleIsAlive'
BY DEF IInv, RunningIsPersisted, RunningIsCancellable, ScheduleIsAlive, Live

\* A task that stops leaves a state that is not running.
LEMMA StopsKeeps ==
    ASSUME IInv, NEW t \in Tasks, NEW state \in {"failed", "cancelled"}, StopsAs(t, state)
    PROVE  IInv'
<1>1. /\ pc' \in [Tasks -> Places]
      /\ \A u \in Tasks : pc'[u] = IF u = t THEN "leave" ELSE pc[u]
  BY MoveTyped DEF IInv, StopsAs, Places
<1>2. TypeOK'
  BY <1>1 DEF IInv, StopsAs, TypeOK, Places, tableVars, timerVars
<1>3. RunningIsPersisted' /\ RunningIsCancellable' /\ ScheduleIsAlive'
  BY DEF StopsAs, IInv, RunningIsPersisted, RunningIsCancellable, ScheduleIsAlive, timerVars
<1>4. Restoring'
  <2> SUFFICES ASSUME NEW u \in Tasks PROVE Restores(u)'
    BY DEF Restoring
  <2>1. CASE u = t
    BY <1>1, <2>1 DEF Restores, Sure
  <2>2. CASE u # t
    BY <1>1, <2>2, OthersRestore DEF IInv, StopsAs, tableVars
  <2> QED
    BY <2>1, <2>2
<1> QED
  BY <1>2, <1>3, <1>4 DEF IInv

\* What TaskStep keeps, whatever the table, domains and merged do.
LEMMA TaskStepKeeps ==
    ASSUME IInv, NEW t \in Tasks, NEW p \in Places \ {"new", "done"}, TaskStep(t, p)
    PROVE  /\ pc' \in [Tasks -> Places]
           /\ \A u \in Tasks : pc'[u] = IF u = t THEN p ELSE pc[u]
           /\ RunningIsPersisted' /\ RunningIsCancellable' /\ ScheduleIsAlive'
           /\ /\ table' \subseteq Domains /\ file' \subseteq Domains /\ on' \in BOOLEAN
              /\ request' \in [Requests -> {"idle", "flush", "save", "answered"}]
              /\ domains' \in [Tasks -> SUBSET Domains] /\ merged' \in [Tasks -> SUBSET Domains]
              => TypeOK'
<1>1. /\ pc' \in [Tasks -> Places]
      /\ \A u \in Tasks : pc'[u] = IF u = t THEN p ELSE pc[u]
  BY MoveTyped DEF IInv, TaskStep
<1>2. RunningIsPersisted' /\ RunningIsCancellable' /\ ScheduleIsAlive'
  BY <1>1, StatusKept DEF TaskStep, statusVars, timerVars
<1>3. ASSUME /\ table' \subseteq Domains /\ file' \subseteq Domains /\ on' \in BOOLEAN
             /\ request' \in [Requests -> {"idle", "flush", "save", "answered"}]
             /\ domains' \in [Tasks -> SUBSET Domains] /\ merged' \in [Tasks -> SUBSET Domains]
      PROVE  TypeOK'
  BY <1>1, <1>3 DEF IInv, TaskStep, TypeOK, Places, statusVars, timerVars
<1> QED
  BY <1>1, <1>2, <1>3

-----------------------------------------------------------------------------
(* The steps of a task.                                                     *)

LEMMA ServedKeeps ==
    ASSUME IInv, NEW t \in Tasks, CallServed(t) PROVE IInv'
<1>1. PICK what \in Asks, p \in {"saving", "flushing", "final saving"} :
          /\ Ask(t, what) /\ TaskStep(t, p)
          /\ p = "saving" => pc[t] = "save"
          /\ p = "flushing" => pc[t] = "flush"
          /\ p = "final saving" => pc[t] = "final save" /\ what # "flush"
  BY DEF CallServed, Asks
<1>2. UNCHANGED <<domains, merged, asking, table, file, on>>
  BY <1>1 DEF CallServed, TaskStep, Ask
<1>3. p \in Places \ {"new", "done"} /\ t \in Requests
  BY TasksAsk DEF Places, Calls
<1>4. /\ request' \in [Requests -> {"idle", "flush", "save", "answered"}]
      /\ request'[t] = what /\ \A u \in Tasks \ {t} : request'[u] = request[u]
  BY <1>1, <1>3, TasksAsk DEF IInv, TypeOK, Ask, Becomes, Asks
<1>5. \A u \in Tasks : pc'[u] = IF u = t THEN p ELSE pc[u]
  BY <1>1, <1>3, TaskStepKeeps
<1>6. TypeOK' /\ RunningIsPersisted' /\ RunningIsCancellable' /\ ScheduleIsAlive'
  BY <1>1, <1>2, <1>3, <1>4, TaskStepKeeps DEF IInv, TypeOK
<1>7. Restoring'
  <2> SUFFICES ASSUME NEW u \in Tasks PROVE Restores(u)'
    BY DEF Restoring
  <2>1. CASE u = t
    BY <1>1, <1>2, <1>4, <1>5, <2>1 DEF IInv, Restoring, Restores, Sure
  <2>2. CASE u # t
    BY <1>2, <1>4, <1>5, <2>2, OthersRestore DEF IInv
  <2> QED
    BY <2>1, <2>2
<1> QED
  BY <1>6, <1>7 DEF IInv

LEMMA ReturnsKeeps ==
    ASSUME IInv, NEW t \in Tasks, CallReturns(t) PROVE IInv'
<1>1. PICK p \in {"merge", "resend", "leave"} :
          TaskStep(t, p) /\ (p = "resend" => pc[t] = "flushing")
  BY DEF CallReturns
<1>2. UNCHANGED <<domains, merged, asking, table, file, on>> /\ Collect(t)
  BY <1>1 DEF CallReturns, TaskStep, Collect
<1>3. p \in Places \ {"new", "done"} /\ t \in Requests
  BY TasksAsk DEF Places
<1>4. /\ request' \in [Requests -> {"idle", "flush", "save", "answered"}]
      /\ request'[t] = "idle" /\ \A u \in Tasks \ {t} : request'[u] = request[u]
  BY <1>2, <1>3, TasksAsk DEF IInv, TypeOK, Collect, Becomes
<1>5. \A u \in Tasks : pc'[u] = IF u = t THEN p ELSE pc[u]
  BY <1>1, <1>3, TaskStepKeeps
<1>6. TypeOK' /\ RunningIsPersisted' /\ RunningIsCancellable' /\ ScheduleIsAlive'
  BY <1>1, <1>2, <1>3, <1>4, TaskStepKeeps DEF IInv, TypeOK
<1>7. Restoring'
  <2> SUFFICES ASSUME NEW u \in Tasks PROVE Restores(u)'
    BY DEF Restoring
  <2>1. CASE u = t
    BY <1>1, <1>2, <1>4, <1>5, <2>1 DEF IInv, Restoring, Restores, Sure
  <2>2. CASE u # t
    BY <1>2, <1>4, <1>5, <2>2, OthersRestore DEF IInv
  <2> QED
    BY <2>1, <2>2
<1> QED
  BY <1>6, <1>7 DEF IInv

LEMMA MergeKeeps ==
    ASSUME IInv, NEW t \in Tasks, Merge(t) PROVE IInv'
<1>1. CASE StopsAs(t, "failed")
  BY <1>1, StopsKeeps
<1>2. CASE /\ TaskStep(t, IF file = {} THEN "leave" ELSE "flush")
           /\ domains' = [domains EXCEPT ![t] = file]
           /\ merged' = [merged EXCEPT ![t] = file] /\ UNCHANGED tableVars
  <2>1. PICK p \in {"leave", "flush"} : TaskStep(t, p)
    BY <1>2
  <2>2. p \in Places \ {"new", "done"}
    BY DEF Places, Calls
  <2>3. UNCHANGED <<table, file, on, request, asking>>
    BY <1>2 DEF TaskStep, tableVars
  <2>4. domains' \in [Tasks -> SUBSET Domains] /\ merged' \in [Tasks -> SUBSET Domains]
    BY <1>2 DEF IInv, TypeOK
  <2>5. /\ \A u \in Tasks : pc'[u] = IF u = t THEN p ELSE pc[u]
        /\ TypeOK' /\ RunningIsPersisted' /\ RunningIsCancellable' /\ ScheduleIsAlive'
    BY <2>1, <2>2, <2>3, <2>4, TaskStepKeeps DEF IInv, TypeOK
  <2>6. /\ merged'[t] = file /\ domains'[t] = file
        /\ \A u \in Tasks \ {t} : merged'[u] = merged[u] /\ domains'[u] = domains[u]
    BY <1>2 DEF IInv, TypeOK
  <2>7. Restoring'
    <3> SUFFICES ASSUME NEW u \in Tasks PROVE Restores(u)'
      BY DEF Restoring
    <3>1. CASE u = t
      BY <2>5, <2>6, <3>1 DEF Restores, Sure
    <3>2. CASE u # t
      BY <2>3, <2>5, <2>6, <3>2, OthersRestore DEF IInv
    <3> QED
      BY <3>1, <3>2
  <2> QED
    BY <2>5, <2>7 DEF IInv
<1> QED
  BY <1>1, <1>2 DEF Merge

LEMMA ResendKeeps ==
    ASSUME IInv, NEW t \in Tasks, NEW d \in Domains, Resend(t, d) PROVE IInv'
<1>1. /\ pc[t] = "resend" /\ domains' = [domains EXCEPT ![t] = @ \ {d}]
      /\ asking' = [asking EXCEPT ![t] = @ \cup {d}]
      /\ UNCHANGED <<table, file, on, request, pc, cancelled, merged, taskState, schedule,
                     taskCancel, timers, firing, applied, latest>>
  BY DEF Resend, tableVars, timerVars
<1>2. \/ \E ok \in BOOLEAN : SaveConfig(ok)
      \/ UNCHANGED <<saved, faults>>
  BY DEF Resend
<1>3. /\ saved' \in [state : States, schedule : BOOLEAN] /\ faults' \in 0 .. MaxFaults
      /\ saved' = saved \/ saved'.state = taskState'
  <2>1. /\ taskState' \in States /\ schedule' \in BOOLEAN /\ faults \in 0 .. MaxFaults
        /\ saved \in [state : States, schedule : BOOLEAN]
    BY <1>1 DEF IInv, TypeOK, States
  <2> QED
    BY <1>2, <2>1, SaveConfigTyped DEF IInv
<1>4. domains' \in [Tasks -> SUBSET Domains] /\ asking' \in [Tasks -> SUBSET Domains]
  BY <1>1 DEF IInv, TypeOK
<1>5. TypeOK'
  BY <1>1, <1>3, <1>4 DEF IInv, TypeOK, States
<1>6. RunningIsPersisted' /\ RunningIsCancellable' /\ ScheduleIsAlive'
  BY <1>1, <1>3, StatusKept
<1>7. Restoring'
  <2> SUFFICES ASSUME NEW u \in Tasks PROVE Restores(u)'
    BY DEF Restoring
  <2>1. CASE u = t
    <3>1. domains'[t] = domains[t] \ {d} /\ asking'[t] = asking[t] \cup {d}
      BY <1>1 DEF IInv, TypeOK
    <3> QED
      BY <1>1, <2>1, <3>1 DEF IInv, Restoring, Restores, Sure
  <2>2. CASE u # t
    <3>1. domains'[u] = domains[u] /\ asking'[u] = asking[u]
      BY <1>1, <2>2 DEF IInv, TypeOK
    <3> QED
      BY <1>1, <3>1, OthersRestore DEF IInv
  <2> QED
    BY <2>1, <2>2
<1> QED
  BY <1>5, <1>6, <1>7 DEF IInv

\* A query that is over, with its name in the table or nobody counting on it.
LEMMA QueryKeeps ==
    ASSUME IInv, NEW t \in Tasks, NEW d \in Domains, QueryRecorded(t, d) \/ QueryLost(t, d)
    PROVE  IInv'
<1>1. /\ asking' = [asking EXCEPT ![t] = @ \ {d}]
      /\ UNCHANGED <<file, on, request, pc, cancelled, domains, taskState, schedule, saved,
                     taskCancel, timers, firing, applied, latest, faults>>
  BY DEF QueryRecorded, QueryLost, Learn, tableVars, statusVars, timerVars
<1>2. \/ table' = table \cup {d} /\ merged' = merged
      \/ table' = table /\ merged' = [merged EXCEPT ![t] = {}]
  BY DEF QueryRecorded, QueryLost, Learn, tableVars
<1>3. asking' \in [Tasks -> SUBSET Domains] /\ merged' \in [Tasks -> SUBSET Domains]
  BY <1>1, <1>2 DEF IInv, TypeOK
<1>4. TypeOK'
  BY <1>1, <1>2, <1>3 DEF IInv, TypeOK
<1>5. RunningIsPersisted' /\ RunningIsCancellable' /\ ScheduleIsAlive'
  BY <1>1, StatusKept
<1>6. Restoring'
  <2> SUFFICES ASSUME NEW u \in Tasks PROVE Restores(u)'
    BY DEF Restoring
  <2>1. CASE u = t
    <3>1. asking'[t] = asking[t] \ {d}
      BY <1>1 DEF IInv, TypeOK
    <3>2. (table' = table \cup {d} /\ merged'[t] = merged[t]) \/ merged'[t] = {}
      BY <1>2 DEF IInv, TypeOK
    <3> QED
      BY <1>1, <2>1, <3>1, <3>2 DEF IInv, Restoring, Restores, Sure
  <2>2. CASE u # t
    <3>1. asking'[u] = asking[u] /\ merged'[u] = merged[u] /\ table \subseteq table'
      BY <1>1, <1>2, <2>2 DEF IInv, TypeOK
    <3> QED
      BY <1>1, <3>1, OthersRestore DEF IInv
  <2> QED
    BY <2>1, <2>2
<1> QED
  BY <1>4, <1>5, <1>6 DEF IInv

LEMMA WaitKeeps ==
    ASSUME IInv, NEW t \in Tasks, AllAsked(t) \/ SeeCancelled(t) PROVE IInv'
<1>1. PICK p \in {"final save", "cancelling"} :
          TaskStep(t, p) /\ (p = "final save" => domains[t] = {} /\ asking[t] = {})
  BY DEF AllAsked, SeeCancelled
<1>2. UNCHANGED <<table, file, on, request, domains, merged, asking>> /\ pc[t] = "resend"
  BY DEF AllAsked, SeeCancelled, TaskStep, tableVars
<1>3. p \in Places \ {"new", "done"}
  BY DEF Places, Calls
<1>4. /\ \A u \in Tasks : pc'[u] = IF u = t THEN p ELSE pc[u]
      /\ TypeOK' /\ RunningIsPersisted' /\ RunningIsCancellable' /\ ScheduleIsAlive'
  BY <1>1, <1>2, <1>3, TaskStepKeeps DEF IInv, TypeOK
<1>5. Restoring'
  <2> SUFFICES ASSUME NEW u \in Tasks PROVE Restores(u)'
    BY DEF Restoring
  <2>1. CASE u = t
    BY <1>1, <1>2, <1>4, <2>1 DEF IInv, Restoring, Restores, Sure
  <2>2. CASE u # t
    BY <1>2, <1>4, <2>2, OthersRestore DEF IInv
  <2> QED
    BY <2>1, <2>2
<1> QED
  BY <1>4, <1>5 DEF IInv

LEMMA CleanupKeeps ==
    ASSUME IInv, NEW t \in Tasks, Cleanup(t) PROVE IInv'
<1>1. /\ UNCHANGED <<table, file, on, request, asking, timers, firing, applied, schedule>>
      /\ domains' = [domains EXCEPT ![t] = {}] /\ merged' = [merged EXCEPT ![t] = {}]
      /\ cancelled' = cancelled \ {t} /\ latest' \in {latest, NoTask} /\ taskCancel' = NoTask
      /\ Move(t, "done")
  BY DEF Cleanup, Forgotten, tableVars, timerVars
<1>2. /\ pc' \in [Tasks -> Places]
      /\ \A u \in Tasks : pc'[u] = IF u = t THEN "done" ELSE pc[u]
  BY <1>1, MoveTyped DEF IInv, Places
<1>3. taskState' \in States \ {"running"}
  BY DEF Cleanup, IInv, TypeOK, States
<1>4. saved' \in [state : States, schedule : BOOLEAN] /\ faults' \in 0 .. MaxFaults
  <2>1. schedule' \in BOOLEAN /\ (SaveConfig(TRUE) \/ SaveConfig(FALSE))
    BY <1>1 DEF Cleanup, IInv, TypeOK
  <2> QED
    BY <1>3, <2>1, SaveConfigTyped DEF IInv
<1>5. domains' \in [Tasks -> SUBSET Domains] /\ merged' \in [Tasks -> SUBSET Domains]
  BY <1>1 DEF IInv, TypeOK
<1>6. TypeOK'
  BY <1>1, <1>2, <1>3, <1>4, <1>5 DEF IInv, TypeOK, States, Places
<1>7. RunningIsPersisted' /\ RunningIsCancellable' /\ ScheduleIsAlive'
  BY <1>1, <1>3 DEF IInv, RunningIsPersisted, RunningIsCancellable, ScheduleIsAlive
<1>8. Restoring'
  <2> SUFFICES ASSUME NEW u \in Tasks PROVE Restores(u)'
    BY DEF Restoring
  <2>1. CASE u = t
    BY <1>2, <2>1 DEF Restores, Sure
  <2>2. CASE u # t
    <3>1. domains'[u] = domains[u] /\ merged'[u] = merged[u]
      BY <1>1, <2>2 DEF IInv, TypeOK
    <3> QED
      BY <1>1, <1>2, <2>2, <3>1, OthersRestore DEF IInv
  <2> QED
    BY <2>1, <2>2
<1> QED
  BY <1>6, <1>7, <1>8 DEF IInv

-----------------------------------------------------------------------------
(* The API, the timers, the table and the end of the process.               *)

\* A task that starts has read nothing yet.
LEMMA StartTaskKeeps ==
    ASSUME IInv, StartTask,
           UNCHANGED <<table, file, on, request, cancelled, domains, asking, merged, applied>>
    PROVE  /\ timers' \in Nat /\ firing' \in Nat => TypeOK'
           /\ RunningIsPersisted' /\ RunningIsCancellable' /\ Restoring'
<1>1. /\ taskState' \in {"running", "idle"} /\ UNCHANGED schedule
      /\ SaveConfig(TRUE) \/ SaveConfig(FALSE)
      /\ taskState' = "running" => SaveConfig(TRUE)
  BY DEF StartTask, Started
<1>2. /\ saved' \in [state : States, schedule : BOOLEAN] /\ faults' \in 0 .. MaxFaults
  <2>1. taskState' \in States /\ schedule' \in BOOLEAN
    BY <1>1 DEF IInv, TypeOK, States
  <2> QED
    BY <1>1, <2>1, SaveConfigTyped DEF IInv
<1>3. RunningIsPersisted'
  BY <1>1 DEF SaveConfig, RunningIsPersisted
<1>4. CASE taskState' = "running"
  <2>1. PICK t \in NewTasks : Started(t)
    BY <1>4 DEF StartTask
  <2>2. t \in Tasks /\ taskCancel' = t /\ latest' = t /\ Move(t, "save")
    BY <2>1 DEF NewTasks, Started
  <2>3. /\ pc' \in [Tasks -> Places]
        /\ \A u \in Tasks : pc'[u] = IF u = t THEN "save" ELSE pc[u]
    BY <2>2, MoveTyped DEF IInv, Places, Calls
  <2>4. ASSUME timers' \in Nat, firing' \in Nat PROVE TypeOK'
    BY <1>1, <1>2, <2>2, <2>3, <2>4 DEF IInv, TypeOK, States, Places
  <2>5. RunningIsCancellable'
    BY <2>2, <2>3 DEF RunningIsCancellable, Live
  <2>6. Restoring'
    <3> SUFFICES ASSUME NEW u \in Tasks PROVE Restores(u)'
      BY DEF Restoring
    <3>1. CASE u = t
      BY <2>3, <3>1 DEF Restores, Sure
    <3>2. CASE u # t
      BY <2>3, <3>2, OthersRestore DEF IInv
    <3> QED
      BY <3>1, <3>2
  <2> QED
    BY <1>3, <2>4, <2>5, <2>6
<1>5. CASE taskState' # "running"
  <2>1. taskState' = "idle" /\ taskCancel' = NoTask /\ UNCHANGED <<latest, pc>>
    BY <1>5 DEF StartTask, Started
  <2>2. ASSUME timers' \in Nat, firing' \in Nat PROVE TypeOK'
    BY <1>1, <1>2, <2>1, <2>2 DEF IInv, TypeOK, States
  <2>3. RunningIsCancellable'
    BY <1>5 DEF RunningIsCancellable
  <2>4. Restoring'
    BY <2>1, OthersRestore DEF IInv, Restoring
  <2> QED
    BY <1>3, <2>2, <2>3, <2>4
<1> QED
  BY <1>4, <1>5

LEMMA TriggerKeeps ==
    ASSUME IInv, Trigger PROVE IInv'
<1>1. UNCHANGED <<table, file, on, request, cancelled, domains, asking, merged, applied,
                  timers, firing, schedule>>
  BY DEF Trigger, StartTask, tableVars, timerVars
<1>2. timers' \in Nat /\ firing' \in Nat /\ ScheduleIsAlive'
  BY <1>1 DEF IInv, TypeOK, ScheduleIsAlive
<1>3. TypeOK' /\ RunningIsPersisted' /\ RunningIsCancellable' /\ Restoring'
  BY <1>1, <1>2, StartTaskKeeps DEF Trigger
<1> QED
  BY <1>2, <1>3 DEF IInv

LEMMA TimerFiresKeeps ==
    ASSUME IInv, TimerFires PROVE IInv'
<1>1. /\ UNCHANGED <<table, file, on, request, cancelled, domains, asking, merged, applied,
                     schedule>>
      /\ timers > 0 /\ timers' = timers - 1 /\ firing' = firing + 1
  BY DEF TimerFires, StartTask, statusVars, tableVars
<1>2. timers' \in Nat /\ firing' \in Nat /\ ScheduleIsAlive'
  BY <1>1 DEF IInv, TypeOK, ScheduleIsAlive
<1>3. CASE StartTask
  <2>1. TypeOK' /\ RunningIsPersisted' /\ RunningIsCancellable' /\ Restoring'
    BY <1>1, <1>2, <1>3, StartTaskKeeps
  <2> QED
    BY <1>2, <2>1 DEF IInv
<1>4. CASE UNCHANGED <<statusVars, latest, pc, faults>>
  <2>1. TypeOK'
    BY <1>1, <1>2, <1>4 DEF IInv, TypeOK, statusVars
  <2>2. RunningIsPersisted' /\ RunningIsCancellable'
    BY <1>4 DEF IInv, RunningIsPersisted, RunningIsCancellable, Live, statusVars
  <2>3. Restoring'
    BY <1>1, <1>4, OthersRestore DEF IInv, Restoring
  <2> QED
    BY <1>2, <2>1, <2>2, <2>3 DEF IInv
<1> QED
  BY <1>3, <1>4 DEF TimerFires

LEMMA RescheduleKeeps ==
    ASSUME IInv, Reschedule PROVE IInv'
<1>1. /\ UNCHANGED <<table, file, on, request, pc, cancelled, domains, asking, merged, taskState,
                     schedule, saved, taskCancel, applied, latest, faults>>
      /\ firing > 0 /\ firing' = firing - 1 /\ timers' = timers + (IF schedule THEN 1 ELSE 0)
  BY DEF Reschedule, tableVars, taskVars, statusVars
<1>2. timers' \in Nat /\ firing' \in Nat /\ ScheduleIsAlive'
  BY <1>1 DEF IInv, TypeOK, ScheduleIsAlive
<1>3. TypeOK'
  BY <1>1, <1>2 DEF IInv, TypeOK
<1>4. RunningIsPersisted' /\ RunningIsCancellable'
  BY <1>1 DEF IInv, RunningIsPersisted, RunningIsCancellable, Live
<1>5. Restoring'
  BY <1>1, OthersRestore DEF IInv, Restoring
<1> QED
  BY <1>2, <1>3, <1>4, <1>5 DEF IInv

LEMMA CancelKeeps ==
    ASSUME IInv, Cancel PROVE IInv'
<1>1. /\ UNCHANGED <<table, file, on, request, pc, domains, asking, merged, taskState, schedule,
                     saved, taskCancel, timers, firing, applied, latest, faults>>
      /\ cancelled' = cancelled \cup {taskCancel} /\ taskCancel # NoTask
  BY DEF Cancel, tableVars, statusVars, timerVars
<1>2. TypeOK'
  BY <1>1 DEF IInv, TypeOK
<1>3. RunningIsPersisted' /\ RunningIsCancellable' /\ ScheduleIsAlive'
  BY <1>1, StatusKept
<1>4. Restoring'
  BY <1>1, OthersRestore DEF IInv, Restoring
<1> QED
  BY <1>2, <1>3, <1>4 DEF IInv

LEMMA UpdateSchedulerKeeps ==
    ASSUME IInv, NEW valid \in BOOLEAN, UpdateScheduler(valid) PROVE IInv'
<1>1. /\ UNCHANGED <<table, file, on, request, pc, cancelled, domains, asking, merged, taskState,
                     taskCancel, firing, latest>>
      /\ schedule' = valid
      /\ \/ SaveConfig(TRUE) /\ timers' = timers + (IF valid THEN 1 ELSE 0) /\ applied' = TRUE
         \/ SaveConfig(FALSE) /\ timers' = timers /\ applied' = FALSE
  BY DEF UpdateScheduler, tableVars, taskVars
<1>2. timers' \in Nat /\ firing' \in Nat /\ applied' \in BOOLEAN /\ ScheduleIsAlive'
  <2>1. timers \in Nat /\ firing \in Nat
    BY DEF IInv, TypeOK
  <2>2. timers' = timers \/ timers' = timers + 1
    <3>1. CASE valid
      BY <1>1, <3>1
    <3>2. CASE ~ valid
      <4>1. timers' = timers + 0 \/ timers' = timers
        BY <1>1, <3>2
      <4> QED
        BY <2>1, <4>1
    <3> QED
      BY <3>1, <3>2
  <2>3. firing' \in Nat /\ timers' \in Nat
    BY <1>1, <2>1, <2>2
  <2>4. applied' /\ valid => timers' = timers + 1
    BY <1>1
  <2>5. ScheduleIsAlive'
    BY <1>1, <2>1, <2>3, <2>4 DEF ScheduleIsAlive
  <2>6. applied' \in BOOLEAN
    BY <1>1
  <2> QED
    BY <2>3, <2>5, <2>6
<1>3. /\ saved' \in [state : States, schedule : BOOLEAN] /\ faults' \in 0 .. MaxFaults
      /\ saved' = saved \/ saved'.state = taskState'
  <2>1. taskState' \in States /\ schedule' \in BOOLEAN
    BY <1>1 DEF IInv, TypeOK, States
  <2> QED
    BY <1>1, <2>1, SaveConfigTyped DEF IInv
<1>4. TypeOK'
  BY <1>1, <1>2, <1>3 DEF IInv, TypeOK, States
<1>5. RunningIsPersisted' /\ RunningIsCancellable'
  BY <1>1, <1>3 DEF IInv, RunningIsPersisted, RunningIsCancellable, Live
<1>6. Restoring'
  BY <1>1, OthersRestore DEF IInv, Restoring
<1> QED
  BY <1>2, <1>4, <1>5, <1>6 DEF IInv

\* A flush of task t finds it before the end of its call; that of somebody else
\* leaves it nothing to restore.
LEMMA TableKeeps ==
    ASSUME IInv, Table PROVE IInv'
<1>1. UNCHANGED <<pc, cancelled, domains, asking, taskState, schedule, saved, taskCancel, timers,
                  firing, applied, latest, faults>>
  BY DEF Table, statusVars, timerVars
<1>2. RunningIsPersisted' /\ RunningIsCancellable' /\ ScheduleIsAlive'
  BY <1>1, StatusKept
<1>3. ASSUME NEW r \in Requests, Flush(r),
             merged' = [t \in Tasks |-> IF t = r THEN merged[t] ELSE {}]
      PROVE  TypeOK' /\ Restoring'
  <2>1. /\ table' \subseteq Domains /\ file' = file /\ on' = on
        /\ request' \in [Requests -> {"idle", "flush", "save", "answered"}]
        /\ request[r] = "flush" /\ \A q \in Requests : request'[q] = IF q = r THEN "save" ELSE request[q]
    BY <1>3 DEF IInv, TypeOK, Flush, Becomes
  <2>2. merged' \in [Tasks -> SUBSET Domains]
    BY <1>3 DEF IInv, TypeOK
  <2>3. TypeOK'
    BY <1>1, <2>1, <2>2 DEF IInv, TypeOK
  <2>4. Restoring'
    <3> SUFFICES ASSUME NEW t \in Tasks PROVE Restores(t)'
      BY DEF Restoring
    <3>1. t \in Requests
      BY TasksAsk
    <3>2. CASE t = r
      <4>1. merged'[t] = merged[t] /\ pc[t] \notin Sure \cup {"resend"}
        BY <1>3, <2>1, <3>2 DEF IInv, Restoring, Restores
      <4> QED
        BY <1>1, <4>1 DEF IInv, Restoring, Restores, Sure
    <3>3. CASE t # r
      <4>1. merged'[t] = {} /\ request'[t] = request[t]
        BY <1>3, <2>1, <3>1, <3>3
      <4> QED
        BY <1>1, <4>1 DEF IInv, Restoring, Restores, Sure
    <3> QED
      BY <3>2, <3>3
  <2> QED
    BY <2>3, <2>4
<1>4. ASSUME merged' = merged, table \subseteq table',
             table' \subseteq Domains, file' \subseteq Domains, on' \in BOOLEAN,
             request' \in [Requests -> {"idle", "flush", "save", "answered"}],
             \A t \in Tasks : request'[t] = request[t] \/ request'[t] # "flush"
      PROVE  TypeOK' /\ Restoring'
  <2>1. TypeOK'
    BY <1>1, <1>4 DEF IInv, TypeOK
  <2>2. Restoring'
    BY <1>1, <1>4, OthersRestore DEF IInv, Restoring
  <2> QED
    BY <2>1, <2>2
<1>5. ASSUME NEW d \in Domains, Learn(d), merged' = merged PROVE TypeOK' /\ Restoring'
  BY <1>4, <1>5 DEF IInv, TypeOK, Learn
<1>6. ASSUME Dump, merged' = merged PROVE TypeOK' /\ Restoring'
  BY <1>4, <1>6 DEF IInv, TypeOK, Dump
<1>7. ASSUME NEW r \in Requests, merged' = merged,
             Answer(r) \/ (r \notin Tasks /\ (Ask(r, "flush") \/ Collect(r)))
      PROVE  TypeOK' /\ Restoring'
  <2>1. /\ table' = table /\ file' \subseteq Domains /\ on' \in BOOLEAN
        /\ request' \in [Requests -> {"idle", "flush", "save", "answered"}]
    BY <1>7 DEF IInv, TypeOK, Answer, Ask, Collect, Becomes
  <2>2. \A t \in Tasks : request'[t] = request[t] \/ request'[t] # "flush"
    BY <1>7, TasksAsk DEF IInv, TypeOK, Answer, Ask, Collect, Becomes
  <2> QED
    BY <1>4, <1>7, <2>1, <2>2 DEF IInv, TypeOK
<1> QED
  BY <1>2, <1>3, <1>5, <1>6, <1>7 DEF IInv, Table

LEMMA RestartKeeps ==
    ASSUME IInv, Restart PROVE IInv'
<1>1. /\ table' = file /\ UNCHANGED <<file, on>>
      /\ request' = [r \in Requests |-> "idle"] /\ taskCancel' = NoTask /\ firing' = 0
      /\ pc' = [t \in Tasks |-> IF pc[t] = "new" THEN "new" ELSE "done"]
      /\ domains' = NoNames /\ asking' = NoNames /\ merged' = NoNames /\ cancelled' = {}
      /\ latest' = NoTask /\ UNCHANGED faults
      /\ applied' = TRUE
  BY DEF Restart, Reload
<1> DEFINE found == IF saved.state = "running" THEN [saved EXCEPT !.state = "failed"] ELSE saved
<1>2. /\ taskState' = found.state /\ schedule' = found.schedule /\ saved' \in {saved, found}
      /\ timers' = IF found.schedule THEN 1 ELSE 0
  BY DEF Restart
<1>3. found \in [state : States \ {"running"}, schedule : BOOLEAN]
  BY DEF IInv, TypeOK, States
<1>4. /\ pc' \in [Tasks -> Places] /\ \A t \in Tasks : pc'[t] \in {"new", "done"}
      /\ domains' \in [Tasks -> SUBSET Domains] /\ asking' \in [Tasks -> SUBSET Domains]
      /\ merged' \in [Tasks -> SUBSET Domains]
  BY <1>1 DEF Places, NoNames
<1>5. /\ taskState' \in States \ {"running"} /\ schedule' \in BOOLEAN
      /\ saved' \in [state : States, schedule : BOOLEAN]
      /\ timers' = IF schedule' THEN 1 ELSE 0
  BY <1>2, <1>3 DEF IInv, TypeOK, States
<1>6. TypeOK'
  BY <1>1, <1>4, <1>5 DEF IInv, TypeOK, Places, States
<1>7. RunningIsPersisted' /\ RunningIsCancellable' /\ ScheduleIsAlive'
  BY <1>1, <1>5 DEF RunningIsPersisted, RunningIsCancellable, ScheduleIsAlive
<1>8. Restoring'
  BY <1>4 DEF Restoring, Restores, Sure
<1> QED
  BY <1>6, <1>7, <1>8 DEF IInv

LEMMA StutterKeeps ==
    ASSUME IInv, UNCHANGED vars PROVE IInv'
<1>1. UNCHANGED <<table, file, on, request, pc, cancelled, domains, asking, merged, taskState,
                  schedule, saved, taskCancel, timers, firing, applied, latest, faults>>
  BY DEF vars, tableVars, requeryVars, taskVars, statusVars, timerVars
<1>2. TypeOK'
  BY <1>1 DEF IInv, TypeOK
<1>3. RunningIsPersisted' /\ RunningIsCancellable' /\ ScheduleIsAlive'
  BY <1>1, StatusKept
<1>4. Restoring'
  BY <1>1, OthersRestore DEF IInv, Restoring
<1> QED
  BY <1>2, <1>3, <1>4 DEF IInv

LEMMA IInvInductive == IInv /\ [Next]_vars => IInv'
<1> SUFFICES ASSUME IInv, [Next]_vars PROVE IInv'
  OBVIOUS
<1>1. ASSUME NEW t \in Tasks, TaskRuns(t) PROVE IInv'
  <2>1. CASE CallFails(t) \/ Cancelled(t)
    BY <2>1, StopsKeeps DEF CallFails, Cancelled
  <2> QED
    BY <1>1, <2>1, ServedKeeps, ReturnsKeeps, MergeKeeps, WaitKeeps, CleanupKeeps, ResendKeeps,
       QueryKeeps DEF TaskRuns
<1> QED
  BY <1>1, TableKeeps, RestartKeeps, TriggerKeeps, CancelKeeps, TimerFiresKeeps, RescheduleKeeps,
     UpdateSchedulerKeeps, StutterKeeps DEF Next

-----------------------------------------------------------------------------
LEMMA IInvHolds == Spec => []IInv
BY InitInv, IInvInductive, PTL DEF Spec

\* Whenever a task runs, the file of the configuration says so.
THEOREM RunningIsPersistedCorrect == Spec => []RunningIsPersisted
<1>1. IInv => RunningIsPersisted
  BY DEF IInv
<1> QED
  BY <1>1, IInvHolds, PTL

\* A running state means a running task, the one that a cancel reaches.
THEOREM RunningIsCancellableCorrect == Spec => []RunningIsCancellable
<1>1. IInv => RunningIsCancellable
  BY DEF IInv
<1> QED
  BY <1>1, IInvHolds, PTL

\* A run that was not disturbed has put back what it had read, when it comes to
\* save the table again: its flush is over, so only its queries are left, and
\* each one has been recorded.
THEOREM RunRestoresCorrect == Spec => []RunRestores
<1>1. IInv => RunRestores
  BY DEF IInv, Restoring, Restores, RunRestores, Sure
<1> QED
  BY <1>1, IInvHolds, PTL

\* The chain of timers of an enabled schedule does not break.
THEOREM ScheduleIsAliveCorrect == Spec => []ScheduleIsAlive
<1>1. IInv => ScheduleIsAlive
  BY DEF IInv
<1> QED
  BY <1>1, IInvHolds, PTL

=============================================================================
