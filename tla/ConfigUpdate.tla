---------------------------- MODULE ConfigUpdate ----------------------------
(****************************************************************************)
(* The configuration upgrade a binary performs on itself when it starts     *)
(* (coremain/config_update.go, called from NewServer in run.go).  A binary  *)
(* built for a newer config schema replaces the maintained files, creates   *)
(* missing switch files and deletes obsolete ones, between a backup and a   *)
(* state record; a failure puts the backup back, and so does the next start *)
(* when the process died on the way.  Every write of a file is a rename, so *)
(* it is one step, and some of them fail.                                   *)
(*                                                                          *)
(* UpdateGuard says which processes take these steps, and adds the crashes. *)
(*                                                                          *)
(* The upgrade goes from schema 0 to schema 1.  Of a file only its version  *)
(* matters: the user's, the user's after an edit, the package's, the        *)
(* package's after an edit, or no file.                                     *)
(****************************************************************************)
EXTENDS Naturals, Sequences, FiniteSets

CONSTANTS
    Managed,    \* files the package replaces (manifest.ManagedFiles)
    Created,    \* files it creates when missing (CreateIfMissing)
    Deleted,    \* files it deletes (DeleteFiles)
    Budgets     \* bounds: the crashes, writes that fail, edits by the user, stops of
                \* the server, backups (no start once there are so many) and updates
                \* a behaviour may have, and whether the binary is installed by hand

Files == Managed \cup Created \cup Deleted

ASSUME FilesDisjoint ==
    Managed \cap Created = {} /\ Managed \cap Deleted = {} /\ Created \cap Deleted = {}
ASSUME BudgetsTyped ==
    Budgets \subseteq [crashes : Nat, faults : Nat, edits : Nat, stops : Nat, backups : Nat,
                       updates : Nat, install : BOOLEAN]

Versions == {"user", "edited", "package", "package_edited", "absent"}
Contents == [Files -> Versions]

\* config_update_state.json: Status ("none" when it is empty), AppliedSchema, whether
\* PackageID is the package's, and BackupDir (a position in backups, 0 for none).
States == [status : {"none", "in_progress", "failed", "success"}, applied : {0, 1},
           pkg : BOOLEAN, backup : Nat]
FirstState == [status |-> "none", applied |-> 0, pkg |-> FALSE, backup |-> 0]

VARIABLES
    files,              \* the configuration on disk
    state,              \* config_update_state.json
    backups,            \* backup directories: the files and PreviousState
    phase,              \* where the starting process is; "down": there is none
    bin,                \* schema the running binary requires
    tx,                 \* configUpdateTx: its backup, 0 for nil
    todo,               \* files the current loop has still to write
    onward,             \* phase that follows a rollback
    valid, runs,        \* the package passes validation; the new binary starts with it
    budget,             \* the bounds of this behaviour
    edited,             \* files the user has edited since they were last replaced
    crashes, faults, stops

diskVars == <<files, state, backups>>
procVars == <<phase, bin, tx, todo, onward>>
given    == <<valid, runs, budget>>
envVars  == <<given, edited, crashes, faults, stops>>
cuVars == <<diskVars, procVars, envVars>>

CUInit ==
    /\ files = [f \in Files |-> IF f \in Created THEN "absent" ELSE "user"]
    /\ state = FirstState /\ backups = <<>>
    /\ phase = "down" /\ bin = 0 /\ tx = 0 /\ todo = {} /\ onward = "down"
    /\ valid \in BOOLEAN /\ runs \in BOOLEAN /\ budget \in Budgets
    /\ edited = {} /\ crashes = 0 /\ faults = 0 /\ stops = 0

-----------------------------------------------------------------------------
(* Versions of the whole configuration.                                     *)

OldConfig == /\ \A f \in Managed : files[f] \in {"user", "edited"}
             /\ \A f \in Deleted : files[f] # "absent"
NewConfig == /\ \A f \in Managed : files[f] \in {"package", "package_edited"}
             /\ \A f \in Created : files[f] # "absent"
             /\ \A f \in Deleted : files[f] = "absent"

\* NewMosdns on the configuration: the user's is known to run, the package's
\* runs or not, one that mixes the two may do either.
MayRun  == OldConfig \/ (NewConfig => runs)
MayFail == ~OldConfig /\ (NewConfig => ~runs)

-----------------------------------------------------------------------------
(* Helpers.                                                                 *)

Fault == faults < budget.faults /\ faults' = faults + 1

Goto(p) == phase' = p /\ todo' = {}

\* recordConfigUpdateFailure, after spent more faults: the error of its own
\* write is ignored.
RecordFailure(previous, pkg, b, spent) ==
    \/ /\ faults' = faults + spent
       /\ state' = [previous EXCEPT !.status = "failed", !.pkg = pkg, !.backup = b]
    \/ /\ faults + spent < budget.faults /\ faults' = faults + spent + 1
       /\ UNCHANGED state

\* A loop of restoreConfigBackup puts one file back as it was.
RestoreOne(b) ==
    \E f \in todo : /\ files' = [files EXCEPT ![f] = backups[b].files[f]]
                    /\ todo' = todo \ {f}

-----------------------------------------------------------------------------
(* NewServer up to prepareRequiredConfigUpdate.                             *)

StartAs(required) ==
    /\ phase = "down" /\ Len(backups) < budget.backups
    /\ bin' = required
    /\ Goto("prepare")
    /\ UNCHANGED <<diskVars, tx, onward, envVars>>

\* A binary that requires no schema changes nothing.
RequiresNothing ==
    /\ phase = "prepare" /\ bin = 0
    /\ Goto("load")
    /\ UNCHANGED <<diskVars, bin, tx, onward, envVars>>

\* Mutant: any record with a backup counts as interrupted.
InterruptedByBackup == state.backup # 0

\* The state record shows an upgrade that was interrupted, or it does not.
Interrupted == state.status = "in_progress" /\ state.backup # 0

\* Mutant: an interrupted upgrade is not looked for.
CheckRecordNever ==
    /\ phase = "prepare" /\ bin > 0
    /\ Goto("upgrade")
    /\ UNCHANGED <<diskVars, bin, tx, onward, envVars>>

CheckRecord ==
    /\ phase = "prepare" /\ bin > 0
    /\ \/ Interrupted /\ phase' = "repair" /\ todo' = Files
       \/ ~Interrupted /\ Goto("upgrade")
    /\ UNCHANGED <<diskVars, bin, tx, onward, envVars>>

\* recoverInterruptedConfigUpdate.  Its failure ends prepareRequiredConfigUpdate.
RepairFile ==
    /\ phase = "repair" /\ RestoreOne(state.backup)
    /\ UNCHANGED <<state, backups, phase, bin, tx, onward, envVars>>

RepairFails ==
    /\ phase = "repair" /\ todo # {} /\ Fault /\ Goto("load")
    /\ UNCHANGED <<diskVars, bin, tx, onward, given, edited, crashes, stops>>

\* The loaded state is re-read afterwards and the upgrade tried again; when
\* its write failed the record still says in_progress and is not looked at.
Repaired ==
    /\ phase = "repair" /\ todo = {}
    /\ RecordFailure(backups[state.backup].prev, state.pkg, state.backup, 0)
    /\ Goto("upgrade")
    /\ UNCHANGED <<files, backups, bin, tx, onward, given, edited, crashes, stops>>

UpToDate ==
    /\ phase = "upgrade" /\ state.applied >= bin
    /\ Goto("load")
    /\ UNCHANGED <<diskVars, bin, tx, onward, envVars>>

\* loadOfficialConfigPackage or parseConfigUpdatePackage fails.
PackageFails ==
    /\ phase = "upgrade" /\ state.applied < bin
    /\ RecordFailure(state, FALSE, 0, 0)
    /\ Goto("load")
    /\ UNCHANGED <<files, backups, bin, tx, onward, given, edited, crashes, stops>>

\* beginConfigUpdate fails: the failure names the package but no backup.
BeginFails ==
    /\ phase = "upgrade" /\ state.applied < bin /\ faults < budget.faults
    /\ RecordFailure(state, TRUE, 0, 1)
    /\ Goto("load")
    /\ UNCHANGED <<files, backups, bin, tx, onward, given, edited, crashes, stops>>

\* beginConfigUpdate: the backup with its manifest, then the state record.
\* No record names the backup directory before, so the two are one step.
Begin ==
    /\ phase = "upgrade" /\ state.applied < bin
    /\ backups' = Append(backups, [files |-> files, prev |-> state])
    /\ state' = [state EXCEPT !.status = "in_progress", !.pkg = TRUE,
                              !.backup = Len(backups) + 1]
    /\ tx' = Len(backups) + 1
    /\ phase' = "apply" /\ todo' = Files
    /\ UNCHANGED <<files, bin, onward, envVars>>

-----------------------------------------------------------------------------
(* apply, validateConfigTree, rollbackWithError.                            *)

\* The managed files, then the missing ones, then the obsolete ones.
NextToApply ==
    {f \in todo : /\ f \in Created => todo \cap Managed = {}
                  /\ f \in Deleted => todo \subseteq Deleted}

Applied(f) ==
    IF f \in Managed THEN "package"
    ELSE IF f \in Deleted THEN "absent"
    ELSE IF files[f] = "absent" THEN "package" ELSE files[f]

ApplyFile ==
    /\ phase = "apply"
    /\ \E f \in NextToApply : /\ files' = [files EXCEPT ![f] = Applied(f)]
                              /\ todo' = todo \ {f}
    /\ UNCHANGED <<state, backups, phase, bin, tx, onward, envVars>>

Rollback(next) == phase' = "rollback" /\ todo' = Files /\ onward' = next

ApplyFails ==
    /\ phase = "apply" /\ todo # {} /\ Fault /\ Rollback("load")
    /\ UNCHANGED <<diskVars, bin, tx, given, edited, crashes, stops>>

Validate ==
    /\ phase = "apply" /\ todo = {}
    /\ \/ valid /\ Goto("load") /\ UNCHANGED onward
       \/ ~valid /\ Rollback("load")
    /\ UNCHANGED <<diskVars, bin, tx, envVars>>

RollbackFile ==
    /\ phase = "rollback" /\ RestoreOne(tx)
    /\ UNCHANGED <<state, backups, phase, bin, tx, onward, envVars>>

\* restoreConfigBackup stops at the first error; the failure is recorded all
\* the same.
RollbackFails ==
    /\ phase = "rollback" /\ todo # {} /\ Fault
    /\ Goto("rollback")
    /\ UNCHANGED <<diskVars, bin, tx, onward, given, edited, crashes, stops>>

RolledBack ==
    /\ phase = "rollback" /\ todo = {}
    /\ RecordFailure(backups[tx].prev, TRUE, tx, 0)
    /\ tx' = 0
    /\ Goto(onward)
    /\ UNCHANGED <<files, backups, bin, onward, given, edited, crashes, stops>>

-----------------------------------------------------------------------------
(* The rest of NewServer: loadConfig, NewMosdns, commitConfigUpdate.        *)

LoadSucceeds ==
    /\ phase = "load" /\ MayRun /\ Goto("commit")
    /\ UNCHANGED <<diskVars, bin, tx, onward, envVars>>

\* The process ends, after a rollback when it has upgraded the files.
LoadFails ==
    /\ phase = "load" /\ MayFail
    /\ \/ tx # 0 /\ Rollback("down")
       \/ tx = 0 /\ Goto("down") /\ UNCHANGED onward
    /\ UNCHANGED <<diskVars, bin, tx, envVars>>

Commit ==
    /\ phase = "commit"
    /\ \/ tx = 0 /\ UNCHANGED <<state, edited>>
       \/ /\ tx # 0 /\ edited' = {}
          /\ state' = [status |-> "success", applied |-> bin, pkg |-> TRUE, backup |-> tx]
    /\ tx' = 0
    /\ Goto("serve")
    /\ UNCHANGED <<files, backups, bin, onward, given, crashes, faults, stops>>

CommitFails ==
    /\ phase = "commit" /\ tx # 0 /\ Fault /\ Rollback("down")
    /\ UNCHANGED <<diskVars, bin, tx, given, edited, crashes, stops>>

-----------------------------------------------------------------------------
(* The environment.                                                         *)

\* The server is stopped.
Stop ==
    /\ phase = "serve" /\ stops < budget.stops
    /\ stops' = stops + 1 /\ Goto("down")
    /\ UNCHANGED <<diskVars, bin, tx, onward, given, edited, crashes, faults>>

\* The user edits a maintained file of the running server.
Edit ==
    /\ phase = "serve" /\ Cardinality(edited) < budget.edits
    /\ \E f \in Managed :
         /\ edited' = edited \cup {f}
         /\ files' = [files EXCEPT ![f] = IF @ \in {"user", "edited"} THEN "edited"
                                          ELSE "package_edited"]
    /\ UNCHANGED <<state, backups, procVars, given, crashes, faults, stops>>

-----------------------------------------------------------------------------
UpgradeStep ==
    \/ RequiresNothing \/ CheckRecord \/ RepairFile \/ RepairFails \/ Repaired
    \/ UpToDate \/ BeginFails \/ Begin \/ ApplyFile \/ ApplyFails \/ Validate
    \/ RollbackFile \/ RollbackFails \/ RolledBack
    \/ LoadSucceeds \/ LoadFails \/ CommitFails

StartUp == UpgradeStep \/ PackageFails \/ Commit

-----------------------------------------------------------------------------
Phases == {"down", "prepare", "repair", "upgrade", "apply", "rollback", "load", "commit", "serve"}

CUTypeOK ==
    /\ files \in Contents /\ state \in States
    /\ backups \in Seq([files : Contents, prev : States])
    /\ phase \in Phases /\ onward \in {"down", "load"}
    /\ bin \in {0, 1} /\ tx \in 0 .. Len(backups) /\ state.backup \in 0 .. Len(backups)
    /\ todo \subseteq Files /\ edited \subseteq Managed
    /\ valid \in BOOLEAN /\ runs \in BOOLEAN /\ budget \in Budgets
    /\ crashes \in Nat /\ faults \in Nat /\ stops \in Nat

\* The server never runs on a half-upgraded configuration: what it has loaded
\* is the package's when the record says the schema is applied and the user's
\* when it does not, however many times the upgrade was interrupted.  (A write
\* that fails while a backup is put back is another matter.)
ServesWholeConfig ==
    phase = "serve" /\ faults = 0 => IF state.applied = 1 THEN NewConfig ELSE OldConfig

=============================================================================
