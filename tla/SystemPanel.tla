----------------------------- MODULE SystemPanel -----------------------------
(***************************************************************************)
(* The rest of the system page (webui-log SystemControlManager.vue and its  *)
(* panels): the audit, the overrides, restarts, the port of the web         *)
(* interface, backups and remote configurations, and updates with the watch *)
(* that waits for the restart.                                              *)
(***************************************************************************)
EXTENDS WebPage

CONSTANTS
    Replacements,   \* rules of the overrides, without the blank one
    Capacities      \* what may be typed as the capacity of the audit

ASSUME CapacitiesAssumption == Capacities \subseteq Nat

AuditPart == "audit"
OverridesPart == "overrides"
PortPart == "port"
UpdatePart == "update"

UpdateStatus(available, pending) == [available |-> available, pending |-> pending]

SystemServer ==
    [capturing |-> FALSE, capacity |-> 100, overrides |-> {}, port |-> 1,
     update |-> UpdateStatus(FALSE, FALSE)]

SystemFresh ==
    [kind |-> "system", mounted |-> TRUE, busy |-> {}, visit |-> AuditPart,
     capturing |-> FALSE, overrides |-> {}, port |-> None,
     update |-> UpdateStatus(FALSE, FALSE), watch |-> FALSE, reload |-> FALSE]

-----------------------------------------------------------------------------
(* reloadAll, for the part that the visit uses; the handlers that read their *)
(* own part again do it without the flag.  A part is shown when all of it    *)
(* was read, over what the user may have typed in the meantime.              *)
SystemReads(visit) ==
    GetAll(CASE visit = AuditPart     -> {"capturing", "capacity"}
             [] visit = OverridesPart -> {"overrides"}
             [] visit = PortPart      -> {"port"}
             [] visit = UpdatePart    -> {"update"})

LoadFlags(visit) == IF visit = PortPart THEN {"portLoading"} ELSE {}

SystemMounted == \E visit \in {AuditPart, OverridesPart, PortPart, UpdatePart} :
    LET flags == {"loading"} \cup LoadFlags(visit)
    IN  /\ page' = Raise([SystemFresh EXCEPT !.visit = visit], flags)
        /\ Begin("systemReads", SystemReads(visit), None, flags)

SystemRefresh ==
    LET flags == {"loading"} \cup LoadFlags(page.visit)
    IN  /\ page.mounted
        /\ page' = Raise(page, flags)
        /\ Begin("systemReads", SystemReads(page.visit), None, flags)
        /\ UNCHANGED <<server, dialog>>

ReadPartAgain(i, lower) ==
    /\ page' = Raise(page, LoadFlags(page.visit))
    /\ Await(i, "systemReads", SystemReads(page.visit), None, lower \cup LoadFlags(page.visit))

SystemShown(i) ==
    CASE Visiting(AuditPart)     -> [page EXCEPT !.capturing = tasks[i].got["capturing"].val]
      [] Visiting(OverridesPart) -> [page EXCEPT !.overrides = tasks[i].got["overrides"].val]
      [] Visiting(PortPart)      -> [page EXCEPT !.port = tasks[i].got["port"].val]
      [] Visiting(UpdatePart)    -> [page EXCEPT !.update = tasks[i].got["update"].val]

SystemRead(i) ==
    /\ i \in Replied("systemReads")
    /\ page' = Lower(IF AllGood(i) THEN SystemShown(i) ELSE page, i)
    /\ End(i)
    /\ UNCHANGED <<server, dialog>>

-----------------------------------------------------------------------------
(* Handlers that ask, then send one request under a flag of their own:       *)
(* clearAuditLogs, submitCapacity, restartMosdns, applyRemoteConfig and      *)
(* applyWebUIPortAndRestart.  They are offered in the part they belong to.   *)
CapacityAllowed(n) == n > 0 /\ n <= 400000

Asked ==
    {[name |-> "clearAuditLogs", visit |-> AuditPart, flags |-> {}, request |-> Call("audit", None)]}
    \cup {[name |-> "submitCapacity", visit |-> AuditPart, flags |-> {}, request |-> Put("capacity", n)]
            : n \in {m \in Capacities : CapacityAllowed(m)}}
    \cup {[name |-> "restartMosdns", visit |-> OverridesPart, flags |-> {"restarting"},
           request |-> Call("restart", None)]}
    \cup {[name |-> "applyRemoteConfig", visit |-> UpdatePart, flags |-> {"updating"},
           request |-> Call("config", None)]}
    \cup {[name |-> "applyWebUIPort", visit |-> PortPart, flags |-> {"portSaving"},
           request |-> Put("port", n)] : n \in {1, 2}}

AskSystem == \E a \in Asked :
    /\ Clickable /\ Visiting(a.visit) /\ page.busy \cap (a.flags \cup {"portLoading"}) = {}
    /\ AskFirst("askSystem", a)
    /\ UNCHANGED <<page, server>>

SystemAnswered(i) ==
    LET a == tasks[i].mem
    IN  /\ i \in Replied("askSystem")
        /\ \/ /\ Reply(i).val
              /\ page' = Raise(page, a.flags)
              /\ Await(i, a.name, One(a.request), None, a.flags)
           \/ ~Reply(i).val /\ page' = page /\ End(i)
        /\ UNCHANGED <<server, dialog>>

(* toggleAuditCapture sends the opposite of what the page shows.             *)
ToggleAudit ==
    /\ Clickable /\ Visiting(AuditPart)
    /\ Begin("toggleAudit", One(Put("capturing", ~page.capturing)), None, {})
    /\ UNCHANGED <<page, server, dialog>>

AuditChanged(i) ==
    /\ i \in Replied("toggleAudit") \cup Replied("clearAuditLogs") \cup Replied("submitCapacity")
    /\ \/ Reply(i).ok /\ ReadPartAgain(i, {})
       \/ ~Reply(i).ok /\ page' = page /\ End(i)
    /\ UNCHANGED <<server, dialog>>

(* A restart, or a remote configuration, reloads the window after a while.   *)
RestartAsked(i) ==
    /\ i \in Replied("restartMosdns") \cup Replied("applyRemoteConfig") \cup Replied("restartForPort")
    /\ \/ /\ Reply(i).ok \/ tasks[i].fn # "restartForPort"
          /\ page' = Lower([page EXCEPT !.reload = @ \/ Reply(i).ok], i)
          /\ End(i)
       \/ ~Reply(i).ok /\ tasks[i].fn = "restartForPort" /\ ReadPartAgain(i, tasks[i].lower)
    /\ UNCHANGED <<server, dialog>>

(* The port is posted first, then the restart; a failure reads the port.     *)
PortPosted(i) ==
    /\ i \in Replied("applyWebUIPort")
    /\ \/ /\ Reply(i).ok
          /\ page' = page
          /\ Await(i, "restartForPort", One(Call("restart", None)), None, tasks[i].lower)
       \/ ~Reply(i).ok /\ ReadPartAgain(i, tasks[i].lower)
    /\ UNCHANGED <<server, dialog>>

-----------------------------------------------------------------------------
(* The overrides: rules are edited in place, and blank ones are not sent.    *)
(* When they are saved the handler asks whether to restart, which takes the  *)
(* dialog away from whoever has it.                                          *)
EditOverrides == \E r \in Replacements \cup {None} :
    /\ Clickable /\ Visiting(OverridesPart)
    /\ page' = [page EXCEPT !.overrides = IF r \in @ THEN @ \ {r} ELSE @ \cup {r}]
    /\ OnlyPage

LoadOverrides ==
    /\ Clickable /\ Visiting(OverridesPart)
    /\ Begin("systemReads", SystemReads(OverridesPart), None, {})
    /\ UNCHANGED <<page, server, dialog>>

SaveOverrides ==
    /\ Clickable /\ Visiting(OverridesPart) /\ "applyingOverrides" \notin page.busy
    /\ page' = Raise(page, {"applyingOverrides"})
    /\ Begin("saveOverrides", One(Put("overrides", page.overrides \ {None})), None, {"applyingOverrides"})
    /\ UNCHANGED <<server, dialog>>

OverridesSaved(i) ==
    /\ i \in Replied("saveOverrides")
    /\ \/ /\ Reply(i).ok
          /\ AskNext(i, "restartForOverrides", None, tasks[i].lower)
          /\ UNCHANGED <<page, server>>
       \/ /\ ~Reply(i).ok
          /\ page' = Lower(page, i) /\ End(i)
          /\ UNCHANGED <<server, dialog>>

OverridesAnswered(i) ==
    /\ i \in Replied("restartForOverrides")
    /\ \/ /\ Reply(i).val
          /\ page' = page
          /\ Await(i, "restartMosdns", One(Call("restart", None)), None, tasks[i].lower)
       \/ ~Reply(i).val /\ ReadPartAgain(i, tasks[i].lower)
    /\ UNCHANGED <<server, dialog>>

-----------------------------------------------------------------------------
(* backupConfig, checkUpdate and applyUpdate; one flag for the last two.     *)
BackupConfig ==
    /\ Clickable /\ Visiting(UpdatePart) /\ "backingUp" \notin page.busy
    /\ page' = Raise(page, {"backingUp"})
    /\ Begin("backupConfig", One(Call("export", None)), None, {"backingUp"})
    /\ UNCHANGED <<server, dialog>>

BackupDone(i) ==
    /\ i \in Replied("backupConfig")
    /\ page' = Lower(page, i)
    /\ End(i)
    /\ UNCHANGED <<server, dialog>>

SendUpdate(fn, patch) ==
    /\ Clickable /\ Visiting(UpdatePart) /\ "updateLoading" \notin page.busy
    /\ page' = Raise(page, {"updateLoading"})
    /\ Begin(fn, One(Patch("update", patch)), None, {"updateLoading"})
    /\ UNCHANGED <<server, dialog>>

CheckUpdate == \E found \in BOOLEAN : SendUpdate("checkUpdate", [available |-> found])

(* An update without force is offered when one is known; with force always.  *)
ApplyUpdate == \E force \in BOOLEAN :
    /\ force \/ (page.update.available /\ ~page.update.pending)
    /\ SendUpdate("applyUpdate", [pending |-> TRUE])

(* The watch starts unless the server runs on Windows, also if the page was  *)
(* left in the meantime.                                                     *)
UpdateReplied(i) ==
    LET shown == Lower([page EXCEPT !.update = Settled(i, "only", @)], i)
        watched == [shown EXCEPT !.watch = TRUE]
    IN  /\ i \in Replied("checkUpdate") \cup Replied("applyUpdate")
        /\ \/ page' = shown
           \/ page' = watched /\ tasks[i].fn = "applyUpdate" /\ Reply(i).ok
        /\ End(i)
        /\ UNCHANGED <<server, dialog>>

(* startRestartWatch: a probe each second, whether or not the last one is    *)
(* back, until the restart is done or ninety seconds have passed.            *)
WatchProbes ==
    /\ page.watch
    /\ Begin("probe", One(Get("update")), None, {})
    /\ UNCHANGED <<page, server, dialog>>

WatchExpires ==
    /\ page.watch
    /\ page' = [page EXCEPT !.watch = FALSE]
    /\ OnlyPage

Probed(i) ==
    LET status == Reply(i).val
        done == Reply(i).ok /\ ~status.pending
    IN  /\ i \in Replied("probe")
        /\ page' = IF ~Reply(i).ok THEN page
                   ELSE [page EXCEPT !.update = status, !.watch = @ /\ ~done, !.reload = @ \/ done]
        /\ End(i)
        /\ UNCHANGED <<server, dialog>>

ServerRestarts ==
    /\ server.update.pending
    /\ server' = [server EXCEPT !.update = UpdateStatus(FALSE, FALSE)]
    /\ UNCHANGED <<page, tasks, dialog, spent>>

(* The window is reloaded: every function that waits is gone.                *)
ReloadWindow ==
    /\ page.reload
    /\ page' = [SystemFresh EXCEPT !.mounted = FALSE]
    /\ tasks' = Nothing
    /\ dialog' = None
    /\ UNCHANGED <<server, spent>>

SystemUnmounted == [page EXCEPT !.mounted = FALSE, !.watch = FALSE]

-----------------------------------------------------------------------------
SystemEvent ==
    \/ SystemRefresh \/ AskSystem \/ ToggleAudit \/ EditOverrides \/ LoadOverrides \/ SaveOverrides
    \/ BackupConfig \/ CheckUpdate \/ ApplyUpdate \/ WatchProbes \/ WatchExpires
    \/ ServerRestarts \/ ReloadWindow

SystemResume(i) ==
    \/ SystemRead(i) \/ SystemAnswered(i) \/ AuditChanged(i) \/ RestartAsked(i) \/ PortPosted(i)
    \/ OverridesSaved(i) \/ OverridesAnswered(i) \/ BackupDone(i) \/ UpdateReplied(i) \/ Probed(i)

=============================================================================
