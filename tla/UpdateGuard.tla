----------------------------- MODULE UpdateGuard -----------------------------
(****************************************************************************)
(* The guarded update of the binary (coremain/update_guard.go) around the   *)
(* upgrade of its configuration (ConfigUpdate).  The running server stages  *)
(* a transaction and becomes the guard: the old binary, which installs the  *)
(* candidate, starts it as a child, probes its health, and then hands over  *)
(* to it or puts the old configuration and the old binary back.  A server   *)
(* that starts and finds a transaction the guard did not finish does the    *)
(* same (recoverAbandonedUpdateTransaction).                                *)
(*                                                                          *)
(* One process of the service is alive at a time, and the candidate.  While *)
(* guard is "watch" phase is the candidate's, while it is "none" phase is   *)
(* the server's, and otherwise phase is "down".  A crash kills them all.    *)
(****************************************************************************)
EXTENDS ConfigUpdate

VARIABLES
    exe,        \* schema the installed binary requires
    txn,        \* transaction.json of the last transaction
    guard,      \* where the guard, or the server that recovers, is
    updates,    \* updates asked for
    before      \* history: the files and the schema when the update began

guardVars == <<exe, txn, guard, updates, before>>
vars == <<cuVars, guardVars>>

\* Status, whether there is a ConfigPackagePath, and PreviousBinaryPath.
Transactions ==
    [status : {"none", "staged", "installing", "testing", "verified", "rolled_back"},
     package : BOOLEAN, prev : {0, 1}]

Init ==
    /\ CUInit
    /\ exe = 0 /\ guard = "none" /\ updates = 0
    /\ txn = [status |-> "none", package |-> FALSE, prev |-> 0]
    /\ before = [files |-> files, applied |-> 0]

-----------------------------------------------------------------------------
(* The server.                                                              *)

Unfinished == txn.status \in {"installing", "testing"}

\* NewServer: nothing to recover.
StartServer ==
    /\ guard = "none" /\ ~Unfinished
    /\ StartAs(exe)
    /\ UNCHANGED guardVars

\* A step of NewServer after that, by the server or the candidate.
Starting == guard \in {"none", "watch"}

ServerUpgrades == Starting /\ UpgradeStep /\ UNCHANGED guardVars

\* The package of a candidate is a file that has been parsed when staged.
ServerHasNoPackage == guard = "none" /\ PackageFails /\ UNCHANGED guardVars

\* The last call of NewServer removes the transactions once one is verified.
ServerCommits ==
    /\ Starting /\ Commit
    /\ txn' = IF txn.status = "verified" THEN [txn EXCEPT !.status = "none"] ELSE txn
    /\ UNCHANGED <<exe, guard, updates, before>>

ServerStops == guard = "none" /\ Stop /\ UNCHANGED guardVars

UserEdits ==
    /\ guard = "none" /\ Edit
    /\ before' = [before EXCEPT !.files = files']
    /\ UNCHANGED <<exe, txn, guard, updates>>

\* The installer copies the new binary over the old one.
InstallByHand ==
    /\ budget.install /\ guard = "none" /\ ~Unfinished /\ exe = 0
    /\ exe' = 1
    /\ UNCHANGED <<cuVars, txn, guard, updates, before>>

CrashAll ==
    /\ crashes < budget.crashes /\ (phase # "down" \/ guard # "none")
    /\ crashes' = crashes + 1
    /\ tx' = 0 /\ Goto("down") /\ guard' = "none"
    /\ UNCHANGED <<diskVars, bin, onward, given, edited, faults, stops,
                   exe, txn, updates, before>>

-----------------------------------------------------------------------------
(* PerformUpdate, stageUpdateTransaction, scheduleUpdateGuard: the server   *)
(* becomes the guard.  A package is staged when the schema is not applied.  *)

Update ==
    /\ guard = "none" /\ phase = "serve" /\ updates < budget.updates
    /\ updates' = updates + 1
    /\ txn' = [status |-> "staged", package |-> state.applied < 1, prev |-> exe]
    /\ before' = [files |-> files, applied |-> state.applied]
    /\ guard' = "staged" /\ Goto("down")
    /\ UNCHANGED <<diskVars, bin, tx, onward, envVars, exe>>

\* A write of the guard that changes nothing of the configuration.
GuardWrites == UNCHANGED <<diskVars, procVars, given, edited, crashes, stops, updates, before>>

SetStatus(status) == txn' = [txn EXCEPT !.status = status]

\* restoreConfigAfterFailedCandidate restores only a backup of the package of
\* the transaction.
NeedsRestore == txn.package /\ state.pkg /\ state.backup # 0

BeginUndo ==
    \/ NeedsRestore /\ guard' = "undo_files" /\ todo' = Files
    \/ ~NeedsRestore /\ guard' = "undo_binary" /\ todo' = {}

-----------------------------------------------------------------------------
(* runUpdateGuard.                                                          *)

WriteInstalling ==
    /\ guard = "staged" /\ GuardWrites
    /\ \/ guard' = "install" /\ SetStatus("installing") /\ UNCHANGED faults
       \/ guard' = "none" /\ Fault /\ UNCHANGED txn
    /\ UNCHANGED exe

InstallCandidate ==
    /\ guard = "install" /\ GuardWrites
    /\ exe' = 1 /\ guard' = "installed"
    /\ UNCHANGED <<txn, faults>>

WriteTesting ==
    /\ guard = "installed" /\ GuardWrites
    /\ SetStatus("testing") /\ guard' = "start"
    /\ UNCHANGED <<exe, faults>>

\* recoverAbandonedUpdateTransaction skips the candidate's own transaction.
StartCandidate ==
    /\ guard = "start" /\ guard' = "watch"
    /\ phase' = "prepare" /\ bin' = exe /\ todo' = {}
    /\ UNCHANGED <<diskVars, tx, onward, envVars, exe, txn, updates, before>>

\* Mutant: the health check does not look at the applied schema.
CandidatePassesUnchecked ==
    /\ guard = "watch" /\ phase = "serve"
    /\ guard' = "passed" /\ Goto("down")
    /\ UNCHANGED <<diskVars, bin, tx, onward, envVars, exe, txn, updates, before>>

\* Healthy: the candidate serves and the schema it requires is applied.  It
\* is stopped before it is started as the server.
CandidatePasses ==
    /\ guard = "watch" /\ phase = "serve" /\ state.applied >= 1
    /\ guard' = "passed" /\ Goto("down")
    /\ UNCHANGED <<diskVars, bin, tx, onward, envVars, exe, txn, updates, before>>

\* The candidate exits or is not healthy in time; it is stopped.
CandidateFails ==
    /\ guard = "watch"
    /\ phase' = "down" /\ tx' = 0 /\ BeginUndo
    /\ UNCHANGED <<diskVars, bin, onward, envVars, exe, txn, updates, before>>

WriteVerified ==
    /\ guard = "passed" /\ GuardWrites
    /\ SetStatus("verified") /\ guard' = "save"
    /\ UNCHANGED <<exe, faults>>

\* saveInstalledUpdateState, then the candidate becomes the server.
SaveInstalled ==
    /\ guard = "save" /\ GuardWrites
    /\ guard' = "none"
    /\ UNCHANGED <<exe, txn, faults>>

\* A write of one of these steps fails, or the start of the candidate does.
GuardStepFails ==
    /\ guard \in {"install", "installed", "start", "passed", "save"} /\ Fault
    /\ BeginUndo
    /\ UNCHANGED <<diskVars, phase, bin, tx, onward, given, edited, crashes, stops,
                   exe, txn, updates, before>>

-----------------------------------------------------------------------------
(* rollbackAndExecPrevious by the guard, and the same by a server that      *)
(* starts and finds the transaction unfinished.                             *)

\* Mutant: the recovery brings back the binary without its configuration.
RecoverBinaryOnly ==
    /\ guard = "none" /\ phase = "down" /\ Unfinished
    /\ guard' = "undo_binary" /\ todo' = {}
    /\ UNCHANGED <<diskVars, phase, bin, tx, onward, envVars, exe, txn, updates, before>>

RecoverAbandoned ==
    /\ guard = "none" /\ phase = "down" /\ Unfinished
    /\ BeginUndo
    /\ UNCHANGED <<diskVars, phase, bin, tx, onward, envVars, exe, txn, updates, before>>

UndoFile ==
    /\ guard = "undo_files" /\ RestoreOne(state.backup)
    /\ UNCHANGED <<state, backups, phase, bin, tx, onward, envVars, guardVars>>

\* Mutant: the state record is left as it is.
UndoRecordSkipped ==
    /\ guard = "undo_files" /\ todo = {}
    /\ guard' = "undo_binary"
    /\ UNCHANGED <<diskVars, procVars, envVars, exe, txn, updates, before>>

\* The state record becomes what it was when the backup was made.
UndoRecord ==
    /\ guard = "undo_files" /\ todo = {}
    /\ state' = backups[state.backup].prev
    /\ guard' = "undo_binary"
    /\ UNCHANGED <<files, backups, procVars, envVars, exe, txn, updates, before>>

\* An error while restoring the configuration does not stop the rollback.
UndoConfigFails ==
    /\ guard = "undo_files" /\ Fault
    /\ guard' = "undo_binary" /\ todo' = {}
    /\ UNCHANGED <<diskVars, phase, bin, tx, onward, given, edited, crashes, stops,
                   exe, txn, updates, before>>

\* Without the old binary the process ends and leaves the transaction as is.
UndoBinary ==
    /\ guard = "undo_binary" /\ GuardWrites
    /\ \/ exe' = txn.prev /\ guard' = "undo_txn" /\ UNCHANGED faults
       \/ guard' = "none" /\ Fault /\ UNCHANGED exe
    /\ UNCHANGED txn

\* Mutant: the status is not written.
WriteNothing ==
    /\ guard = "undo_txn" /\ GuardWrites
    /\ guard' = "none"
    /\ UNCHANGED <<exe, txn, faults>>

\* The error of this write is ignored.
WriteRolledBack ==
    /\ guard = "undo_txn" /\ GuardWrites
    /\ \/ SetStatus("rolled_back") /\ UNCHANGED faults
       \/ Fault /\ UNCHANGED txn
    /\ guard' = "none"
    /\ UNCHANGED exe

-----------------------------------------------------------------------------
ServerStep == ServerUpgrades \/ ServerHasNoPackage \/ ServerCommits

GuardStep ==
    \/ WriteInstalling \/ InstallCandidate \/ WriteTesting \/ StartCandidate
    \/ CandidatePasses \/ WriteVerified \/ SaveInstalled
    \/ GuardStepFails
    \/ UndoFile \/ UndoRecord \/ UndoConfigFails \/ UndoBinary \/ WriteRolledBack

Next ==
    \/ StartServer \/ RecoverAbandoned \/ ServerStep \/ GuardStep \/ CandidateFails
    \/ Update \/ InstallByHand \/ ServerStops \/ UserEdits \/ CrashAll

Spec == Init /\ [][Next]_vars

\* The server, the guard and the service manager go on.  Nothing makes a
\* candidate fail that serves, but the guard waits for at most 90 seconds.
Fairness ==
    /\ WF_vars(StartServer) /\ WF_vars(RecoverAbandoned)
    /\ WF_vars(ServerStep) /\ WF_vars(GuardStep)
    /\ WF_vars(CandidateFails)

FairSpec == Spec /\ Fairness

-----------------------------------------------------------------------------
TypeOK ==
    /\ CUTypeOK
    /\ exe \in {0, 1} /\ txn \in Transactions /\ updates \in Nat
    /\ guard \in {"none", "staged", "install", "installed", "start", "watch", "passed", "save",
                  "undo_files", "undo_binary", "undo_txn"}
    /\ before \in [files : Contents, applied : {0, 1}]

\* A rolled back update has left no trace: the server that runs again is the
\* old binary on the files and the schema it had, with the later edits (unless
\* another binary may be installed by hand).  A failed write while the files are
\* put back does not stop the rollback.
RollbackIsExact ==
    /\ phase = "serve" /\ guard = "none" /\ txn.status = "rolled_back"
    /\ faults = 0 /\ ~budget.install
    =>
        /\ bin = txn.prev /\ exe = txn.prev
        /\ files = before.files /\ state.applied = before.applied

\* A verified update is complete, before and after the removal of the
\* transaction: the new binary is installed and has its configuration.  This
\* stands any number of crashes.
UpdateComplete == exe = 1 /\ state.applied = 1 /\ NewConfig

VerifiedIsComplete ==
    txn.status = "verified" /\ guard = "none" /\ faults = 0 => UpdateComplete

\* It also stands a write of the guard or of the candidate that fails, in the
\* only update and without a crash.
VerifiedAfterFault ==
    txn.status = "verified" /\ guard = "none" /\ crashes = 0 /\ faults = 1 /\ updates = 1 =>
        UpdateComplete

\* A failed, interrupted or rolled back upgrade leaves every file the user has
\* edited as the user left it.  An update after one by hand has failed is not
\* meant: what the guard may put back then is a backup older than the edits.
EditsSurvive ==
    phase = "serve" /\ faults = 0 /\ (~budget.install \/ updates = 0) =>
        \A f \in edited : files[f] \in {"edited", "package_edited"}

\* No crash leaves the old binary with the configuration of the new one.
OldBinaryOldConfig == phase = "serve" /\ bin = 0 /\ faults = 0 => OldConfig

\* An update ends with a server that serves, whatever the candidate does and
\* wherever the processes are killed.  (A binary installed by hand may fail at
\* every start: nothing brings the old one back.)
UpdateEndsInService ==
    (guard # "none" /\ ~budget.install) ~> (guard = "none" /\ phase = "serve")
=============================================================================
