------------------------- MODULE UpdateGuard_proofs -------------------------
(* Theorems about UpdateGuard and the ConfigUpdate it composes, for every   *)
(* set of files and every budget: any number of crashes, updates, edits and *)
(* stops.  Most are about behaviours without a failed write, and their      *)
(* invariant IInv follows                                                   *)
(* the code: which of the files are whole and which are between two         *)
(* versions (FilesMatch) depends on where the server, the candidate or the  *)
(* guard is, and a crash leaves what a later start can tell from the two    *)
(* records (RecordsMean, Matched).  The last two conjuncts hold as long as  *)
(* no binary is installed by hand.  VerifiedAfterFault is about behaviours  *)
(* with one failed write or more; its invariant is FaultInv.                *)
EXTENDS UpdateGuard, TLAPS

InProgress == state.status = "in_progress"

Whole == IF state.applied = 1 THEN NewConfig ELSE OldConfig

OldFiles(c) == /\ \A f \in Managed : c[f] \in {"user", "edited"}
               /\ \A f \in Deleted : c[f] # "absent"

\* The loop of restoreConfigBackup has put back what is not in todo.
RestoredFrom(b) == \A f \in Files \ todo : files[f] = backups[b].files[f]

RecordRestored == RestoredFrom(state.backup)
TxRestored == RestoredFrom(tx)

\* What the loop of apply has done to what is not in todo.
AppliedSoFar ==
    /\ \A f \in Managed \ todo : files[f] = "package"
    /\ \A f \in Created \ todo : files[f] # "absent"
    /\ \A f \in Deleted \ todo : files[f] = "absent"

\* There is a backup where the code reads one, and one process at a time.
BackupsHeld ==
    /\ phase # "down" => guard \in {"none", "watch"}
    /\ phase = "repair" \/ guard = "undo_files" => state.backup # 0
    /\ phase \in {"apply", "rollback"} => tx # 0
    /\ \A i \in 1 .. Len(backups) : backups[i].prev.backup \in 0 .. Len(backups)

\* What a state record and a backup say, wherever they come from.
RecordsMean ==
    /\ InProgress => state.pkg /\ state.backup # 0 /\ state.applied = 0
    /\ state.applied = 1 => state.pkg /\ state.backup # 0
    /\ \A i \in 1 .. Len(backups) :
          /\ backups[i].prev.applied = 0 /\ backups[i].prev.status # "in_progress"
          /\ OldFiles(backups[i].files)

Updating == guard = "staged" \/ Unfinished

\* Who is alive, and what has been written of the transaction by then.
Placed ==
    /\ guard = "none" /\ phase # "down" => ~Unfinished
    /\ guard = "staged" => txn.status = "staged"
    /\ guard \in {"install", "installed", "start", "watch", "passed",
                  "undo_files", "undo_binary", "undo_txn"} => Unfinished
    /\ guard = "save" => txn.status = "verified"
    /\ txn.status = "verified" => guard \in {"none", "save"}
    /\ guard = "undo_files" => NeedsRestore
    /\ tx # 0 => /\ phase \in {"apply", "rollback", "load", "commit"}
                 /\ InProgress /\ tx = state.backup /\ bin = 1

\* The binary and the schema.
Matched ==
    /\ guard \in {"installed", "start", "watch", "passed"} \/ (phase # "down" /\ bin = 1) => exe = 1
    /\ guard = "watch" /\ phase # "down" => bin = 1
    /\ guard = "passed" => state.applied = 1
    /\ txn.status = "verified" => exe = 1 /\ state.applied = 1
    /\ \/ phase # "down" /\ bin = 0
       \/ ~Unfinished /\ exe = 0
       => state.applied = 0 /\ ~InProgress
    /\ Updating => (txn.prev = 1 \/ txn.package) /\ (txn.package \/ state.applied = 1)
    /\ guard \in {"undo_binary", "undo_txn"} /\ txn.package => state.applied = 0
    /\ guard = "undo_txn" => exe = txn.prev

\* The files, where they are whole and where they are between two versions.
FilesMatch ==
    /\ phase = "repair" => InProgress /\ RecordRestored
    /\ phase = "rollback" => TxRestored
    /\ phase = "apply" => AppliedSoFar
    /\ phase \in {"load", "commit"} /\ tx # 0 => NewConfig
    /\ guard = "undo_files" => RecordRestored
    /\ \/ phase \in {"upgrade", "serve"}
       \/ phase \in {"load", "commit"} /\ tx = 0
       \/ guard \notin {"none", "watch", "undo_files"}
       => ~InProgress
    /\ guard # "undo_files" => Whole \/ InProgress \/ (guard = "none" /\ Unfinished /\ NeedsRestore)

KeptIn(c) == \A f \in edited : c[f] \in {"edited", "package_edited"}

\* As long as no binary is installed by hand, only a candidate upgrades, once
\* in an update, and the record goes back to the first one with the files.
FirstOnly ==
    /\ \A i \in 1 .. Len(backups) : backups[i].prev = FirstState
    /\ ~Updating =>
          /\ (exe = 1 /\ state.applied = 1) \/ (exe = 0 /\ state = FirstState)
          /\ phase # "down" => bin = exe
    /\ Updating =>
          /\ txn.prev = IF txn.package THEN 0 ELSE 1
          /\ txn.package /\ state # FirstState => state.pkg /\ state.backup # 0
          /\ guard = "staged" => exe = txn.prev
          /\ txn.package /\ \/ guard \in {"staged", "install", "installed", "start",
                                          "undo_binary", "undo_txn"}
                            \/ guard = "watch" /\ phase \in {"prepare", "repair", "upgrade"}
             => state = FirstState

\* The files the update found, and the edits in them.
FilesFound ==
    /\ ~Updating =>
          /\ KeptIn(files)
          /\ txn.status = "rolled_back" =>
                files = before.files /\ state.applied = before.applied /\ exe = txn.prev
    /\ Updating =>
          /\ before.applied = IF txn.package THEN 0 ELSE 1
          /\ KeptIn(before.files)
          /\ ~txn.package \/ state = FirstState => files = before.files
          /\ txn.package /\ state # FirstState => backups[state.backup].files = before.files
          /\ txn.package /\ state.applied = 1 => edited = {}
          /\ /\ guard = "watch" /\ phase \in {"load", "commit", "serve"} /\ tx = 0
             /\ txn.package /\ state.applied = 0
             => files = before.files

NoFault ==
    /\ RecordsMean /\ Placed /\ Matched /\ FilesMatch
    /\ ~budget.install => FirstOnly /\ FilesFound

\* As long as no update has been asked for, by hand or not.
BeforeUpdates ==
    updates = 0 => /\ guard = "none" /\ txn.status = "none"
                   /\ IF InProgress THEN KeptIn(backups[state.backup].files) ELSE KeptIn(files)

IInv == TypeOK /\ BackupsHeld /\ (faults = 0 => NoFault /\ BeforeUpdates)

-----------------------------------------------------------------------------
(* Helpers.                                                                 *)

Backup == [files : Contents, prev : States]

LEMMA BackupTyped ==
    ASSUME TypeOK, NEW i \in 1 .. Len(backups)
    PROVE  /\ backups[i] \in Backup
           /\ backups[i].files \in Contents /\ backups[i].prev \in States
<1>1. backups \in Seq(Backup)
  BY DEF TypeOK, CUTypeOK, Backup
<1>2. backups[i] \in Backup
  BY <1>1
<1> QED
  BY <1>2 DEF Backup

LEMMA BackupAdded ==
    ASSUME NEW s \in Seq(Backup), NEW r \in Backup
    PROVE  /\ Append(s, r) \in Seq(Backup) /\ Len(Append(s, r)) = Len(s) + 1
           /\ Append(s, r)[Len(s) + 1] = r
           /\ \A i \in 1 .. Len(s) : Append(s, r)[i] = s[i]
OBVIOUS

LEMMA BackupsCount ==
    ASSUME TypeOK PROVE backups \in Seq(Backup) /\ Len(backups) \in Nat
<1>1. backups \in Seq(Backup)
  BY DEF TypeOK, CUTypeOK, Backup
<1> QED
  BY <1>1

LEMMA RestoreOneTyped ==
    ASSUME TypeOK, NEW b \in 1 .. Len(backups), RestoreOne(b)
    PROVE  /\ files' \in Contents /\ todo' \subseteq Files
           /\ (UNCHANGED backups /\ RestoredFrom(b)) => RestoredFrom(b)'
<1>1. PICK f \in todo : /\ files' = [files EXCEPT ![f] = backups[b].files[f]]
                        /\ todo' = todo \ {f}
  BY DEF RestoreOne
<1>2. files \in Contents /\ todo \subseteq Files
  BY DEF TypeOK, CUTypeOK
<1>3. backups[b].files \in Contents
  BY BackupTyped
<1>4. files' \in Contents /\ todo' \subseteq Files
  BY <1>1, <1>2, <1>3 DEF Contents
<1>5. ASSUME UNCHANGED backups, RestoredFrom(b) PROVE RestoredFrom(b)'
  BY <1>1, <1>2, <1>3, <1>5 DEF Contents, RestoredFrom
<1> QED
  BY <1>4, <1>5

\* All of the loop's files are back.
LEMMA AllRestored ==
    ASSUME TypeOK, NEW b \in 1 .. Len(backups), RestoredFrom(b), todo = {}
    PROVE  files = backups[b].files
<1>1. files \in Contents /\ backups[b].files \in Contents
  BY BackupTyped DEF TypeOK, CUTypeOK
<1> QED
  BY <1>1 DEF Contents, RestoredFrom

-----------------------------------------------------------------------------
(* Types.                                                                   *)

Typed == TypeOK /\ BackupsHeld

LEMMA InitTyped == Init => Typed
<1> SUFFICES ASSUME Init PROVE Typed
  OBVIOUS
<1>1. files \in Contents
  BY DEF Init, CUInit, Contents, Versions
<1>2. backups \in Seq([files : Contents, prev : States]) /\ Len(backups) = 0
  BY DEF Init, CUInit
<1>3. state \in States /\ state.backup = 0
  BY DEF Init, CUInit, FirstState, States
<1>4. CUTypeOK
  BY <1>1, <1>2, <1>3 DEF Init, CUInit, CUTypeOK, Phases
<1>5. TypeOK
  BY <1>1, <1>4 DEF Init, TypeOK, Transactions
<1>6. BackupsHeld
  BY <1>2 DEF Init, CUInit, BackupsHeld
<1> QED
  BY <1>5, <1>6 DEF Typed

\* The numbers.
LEMMA Positions ==
    ASSUME Typed
    PROVE  /\ backups \in Seq(Backup) /\ Len(backups) \in Nat
           /\ state \in States /\ files \in Contents
           /\ tx \in 0 .. Len(backups) /\ state.backup \in 0 .. Len(backups)
           /\ phase \in {"apply", "rollback"} => tx \in 1 .. Len(backups)
           /\ phase = "repair" \/ guard = "undo_files" => state.backup \in 1 .. Len(backups)
           /\ faults \in Nat /\ todo \subseteq Files
           /\ phase # "down" => guard \in {"none", "watch"}
<1>1. backups \in Seq(Backup) /\ Len(backups) \in Nat
  BY BackupsCount DEF Typed
<1>2. /\ state \in States /\ files \in Contents /\ faults \in Nat /\ todo \subseteq Files
      /\ tx \in 0 .. Len(backups) /\ state.backup \in 0 .. Len(backups)
  BY DEF Typed, TypeOK, CUTypeOK
<1>3. /\ phase \in {"apply", "rollback"} => tx # 0
      /\ phase # "down" => guard \in {"none", "watch"}
      /\ phase = "repair" \/ guard = "undo_files" => state.backup # 0
  BY DEF Typed, BackupsHeld
<1> QED
  BY <1>1, <1>2, <1>3

\* A step that leaves the disk alone.
LEMMA ControlTyped ==
    ASSUME Typed, UNCHANGED <<files, state, backups, valid, runs, budget>>,
           phase' \in Phases, onward' \in {"down", "load"}, bin' \in {0, 1},
           tx' \in 0 .. Len(backups), todo' \subseteq Files, edited' \subseteq Managed,
           crashes' \in Nat, faults' \in Nat, stops' \in Nat,
           exe' \in {0, 1}, txn' \in Transactions, updates' \in Nat,
           guard' \in {"none", "staged", "install", "installed", "start", "watch", "passed", "save",
                       "undo_files", "undo_binary", "undo_txn"},
           before' \in [files : Contents, applied : {0, 1}],
           phase' = "repair" \/ guard' = "undo_files" => state.backup # 0,
           phase' \in {"apply", "rollback"} => tx' # 0,
           phase' # "down" => guard' \in {"none", "watch"}
    PROVE  Typed'
<1>1. CUTypeOK'
  BY DEF Typed, TypeOK, CUTypeOK
<1>2. BackupsHeld'
  BY DEF Typed, BackupsHeld
<1> QED
  BY <1>1, <1>2 DEF Typed, TypeOK

\* The steps of a start that only move on.
LEMMA MovesTyped ==
    ASSUME Typed, UNCHANGED guardVars,
           \/ RequiresNothing \/ CheckRecord \/ RepairFails \/ UpToDate \/ ApplyFails \/ Validate
           \/ RollbackFails \/ LoadSucceeds \/ LoadFails \/ CommitFails
    PROVE  Typed'
<1>1. /\ UNCHANGED <<files, state, backups, valid, runs, budget, bin, tx, edited, crashes, stops>>
      /\ UNCHANGED <<exe, txn, guard, updates, before>>
  BY DEF guardVars, RequiresNothing, CheckRecord, RepairFails, UpToDate, ApplyFails, Validate,
         RollbackFails, LoadSucceeds, LoadFails, CommitFails, diskVars, given, envVars
<1>2. /\ phase' \in Phases /\ onward' \in {"down", "load"} /\ todo' \subseteq Files
      /\ phase' = "repair" => state.backup # 0
      /\ phase' \in {"apply", "rollback"} => tx # 0
      /\ phase # "down"
  <2>1. /\ onward \in {"down", "load"} /\ todo \subseteq Files
        /\ phase \in {"apply", "rollback"} => tx # 0
    BY DEF Typed, TypeOK, CUTypeOK, BackupsHeld
  <2> QED
    BY <2>1 DEF RequiresNothing, CheckRecord, RepairFails, UpToDate, ApplyFails, Validate,
         RollbackFails, LoadSucceeds, LoadFails, CommitFails, Goto, Rollback, Interrupted, Phases,
         envVars
<1>3. faults' \in Nat
  <2>1. faults' = faults \/ faults' = faults + 1
    BY DEF RequiresNothing, CheckRecord, RepairFails, UpToDate, ApplyFails, Validate,
           RollbackFails, LoadSucceeds, LoadFails, CommitFails, Fault, envVars
  <2> QED
    BY <2>1, Positions
<1>4. /\ bin \in {0, 1} /\ tx \in 0 .. Len(backups) /\ edited \subseteq Managed
      /\ crashes \in Nat /\ stops \in Nat /\ exe \in {0, 1} /\ txn \in Transactions
      /\ updates \in Nat /\ before \in [files : Contents, applied : {0, 1}]
      /\ guard \in {"none", "staged", "install", "installed", "start", "watch", "passed", "save",
                    "undo_files", "undo_binary", "undo_txn"}
      /\ guard = "undo_files" => state.backup # 0
      /\ phase # "down" => guard \in {"none", "watch"}
  BY DEF Typed, TypeOK, CUTypeOK, BackupsHeld
<1> QED
  BY <1>1, <1>2, <1>3, <1>4, ControlTyped

\* A record of a failure, with the backup it names.
LEMMA FailuresTyped ==
    ASSUME Typed, UNCHANGED guardVars, Starting,
           Repaired \/ BeginFails \/ PackageFails \/ RolledBack
    PROVE  Typed'
<1>1. /\ UNCHANGED <<files, backups, valid, runs, budget, bin, edited, crashes, stops, onward>>
      /\ UNCHANGED <<exe, txn, guard, updates, before>>
      /\ todo' = {} /\ tx' \in {tx, 0} /\ phase' \in {"upgrade", "load", "down"}
  BY DEF guardVars, Repaired, BeginFails, PackageFails, RolledBack, given, Goto, Typed, TypeOK,
         CUTypeOK
<1>2. /\ state \in States /\ state.pkg \in BOOLEAN /\ state.backup \in 0 .. Len(backups)
      /\ Len(backups) \in Nat /\ faults \in Nat
  BY Positions DEF States
<1>3. state' \in States /\ state'.backup \in 0 .. Len(backups) /\ faults' \in Nat
  <2>1. CASE Repaired
    <3>1. phase = "repair"
      BY <2>1 DEF Repaired
    <3>2. state.backup \in 1 .. Len(backups)
      BY <3>1, Positions
    <3>3. backups[state.backup].prev \in States
      BY <3>2, BackupTyped DEF Typed
    <3>4. \/ state' = [backups[state.backup].prev EXCEPT !.status = "failed", !.pkg = state.pkg, !.backup = state.backup]
          \/ state' = state
      BY <2>1 DEF Repaired, RecordFailure
    <3>5. state.backup \in Nat
      BY <1>2
    <3>6. ASSUME state' = [backups[state.backup].prev EXCEPT !.status = "failed", !.pkg = state.pkg, !.backup = state.backup]
          PROVE  state' \in States /\ state'.backup = state.backup
      BY <1>2, <3>3, <3>5, <3>6 DEF States
    <3>7. faults' \in Nat
      <4>1. faults' = faults + 0 \/ faults' = faults + 0 + 1
        BY <2>1 DEF Repaired, RecordFailure
      <4> QED
        BY <1>2, <4>1
    <3> QED
      BY <1>2, <3>4, <3>6, <3>7
  <2>2. CASE BeginFails
    <3>1. \/ state' = [state EXCEPT !.status = "failed", !.pkg = TRUE, !.backup = 0]
          \/ state' = state
      BY <2>2 DEF BeginFails, RecordFailure
    <3>2. ASSUME state' = [state EXCEPT !.status = "failed", !.pkg = TRUE, !.backup = 0]
          PROVE  state' \in States /\ state'.backup = 0
      BY <1>2, <3>2 DEF States
    <3>3. faults' \in Nat
      <4>1. faults' = faults + 1 \/ faults' = faults + 1 + 1
        BY <2>2 DEF BeginFails, RecordFailure
      <4> QED
        BY <1>2, <4>1
    <3> QED
      BY <1>2, <3>1, <3>2, <3>3
  <2>3. CASE PackageFails
    <3>1. \/ state' = [state EXCEPT !.status = "failed", !.pkg = FALSE, !.backup = 0]
          \/ state' = state
      BY <2>3 DEF PackageFails, RecordFailure
    <3>2. ASSUME state' = [state EXCEPT !.status = "failed", !.pkg = FALSE, !.backup = 0]
          PROVE  state' \in States /\ state'.backup = 0
      BY <1>2, <3>2 DEF States
    <3>3. faults' \in Nat
      <4>1. faults' = faults + 0 \/ faults' = faults + 0 + 1
        BY <2>3 DEF PackageFails, RecordFailure
      <4> QED
        BY <1>2, <4>1
    <3> QED
      BY <1>2, <3>1, <3>2, <3>3
  <2>4. CASE RolledBack
    <3>1. phase = "rollback"
      BY <2>4 DEF RolledBack
    <3>2. tx \in 1 .. Len(backups)
      BY <3>1, Positions
    <3>3. backups[tx].prev \in States
      BY <3>2, BackupTyped DEF Typed
    <3>4. \/ state' = [backups[tx].prev EXCEPT !.status = "failed", !.pkg = TRUE, !.backup = tx]
          \/ state' = state
      BY <2>4 DEF RolledBack, RecordFailure
    <3>5. tx \in Nat
      BY <1>2, <3>2
    <3>6. ASSUME state' = [backups[tx].prev EXCEPT !.status = "failed", !.pkg = TRUE, !.backup = tx]
          PROVE  state' \in States /\ state'.backup = tx
      BY <1>2, <3>2, <3>3, <3>5, <3>6 DEF States
    <3>7. faults' \in Nat
      <4>1. faults' = faults + 0 \/ faults' = faults + 0 + 1
        BY <2>4 DEF RolledBack, RecordFailure
      <4> QED
        BY <1>2, <4>1
    <3> QED
      BY <1>2, <3>2, <3>4, <3>6, <3>7
  <2> QED
    BY <2>1, <2>2, <2>3, <2>4
<1>4. CUTypeOK'
  <2>1. tx' \in 0 .. Len(backups)
    BY <1>1, Positions
  <2> QED
    BY <1>1, <1>3, <2>1 DEF Typed, TypeOK, CUTypeOK, Phases
<1>5. TypeOK'
  BY <1>1, <1>4 DEF Typed, TypeOK
<1>6. BackupsHeld'
  BY <1>1 DEF Typed, BackupsHeld, Starting
<1> QED
  BY <1>5, <1>6 DEF Typed

LEMMA BeginTyped ==
    ASSUME Typed, UNCHANGED guardVars, Starting, Begin
    PROVE  Typed'
<1> DEFINE r == [files |-> files, prev |-> state]
<1>1. r \in Backup /\ backups \in Seq(Backup) /\ Len(backups) \in Nat
  BY BackupsCount DEF Typed, TypeOK, CUTypeOK, Backup
<1>2. /\ backups' \in Seq(Backup) /\ Len(backups') = Len(backups) + 1
      /\ backups'[Len(backups) + 1] = r
      /\ \A i \in 1 .. Len(backups) : backups'[i] = backups[i]
  BY <1>1, BackupAdded DEF Begin
<1>3. state' \in States /\ state'.backup = Len(backups) + 1
  <2>1. state' = [state EXCEPT !.status = "in_progress", !.pkg = TRUE, !.backup = Len(backups) + 1]
    BY DEF Begin
  <2>2. state \in States /\ Len(backups) + 1 \in Nat
    BY <1>1, Positions
  <2> QED
    BY <2>1, <2>2 DEF States
<1>4. CUTypeOK'
  <2>1. tx' = Len(backups) + 1 /\ phase' = "apply" /\ todo' = Files
        /\ UNCHANGED <<files, bin, onward, valid, runs, budget, edited, crashes, faults, stops>>
    BY DEF Begin, envVars, given
  <2>2. tx' \in 0 .. Len(backups') /\ state'.backup \in 0 .. Len(backups')
    BY <1>1, <1>2, <1>3, <2>1
  <2>3. backups' \in Seq([files : Contents, prev : States])
    BY <1>2 DEF Backup
  <2>4. /\ files \in Contents /\ onward \in {"down", "load"} /\ bin \in {0, 1}
        /\ edited \subseteq Managed /\ valid \in BOOLEAN /\ runs \in BOOLEAN /\ budget \in Budgets
        /\ crashes \in Nat /\ faults \in Nat /\ stops \in Nat
    BY DEF Typed, TypeOK, CUTypeOK
  <2> QED
    BY <1>3, <2>1, <2>2, <2>3, <2>4 DEF CUTypeOK, Phases
<1>5. TypeOK'
  BY <1>4 DEF guardVars, Typed, TypeOK
<1>6. BackupsHeld'
  <2>1. tx' # 0 /\ phase' = "apply" /\ guard' \in {"none", "watch"}
    BY <1>1 DEF Begin, guardVars, Starting
  <2>2. ASSUME NEW i \in 1 .. Len(backups') PROVE backups'[i].prev.backup \in 0 .. Len(backups')
    <3>1. CASE i \in 1 .. Len(backups)
      <4>1. backups[i].prev.backup \in 0 .. Len(backups)
        BY <3>1 DEF Typed, BackupsHeld
      <4> QED
        BY <1>1, <1>2, <3>1, <4>1
    <3>2. CASE i = Len(backups) + 1
      <4>1. backups'[i].prev.backup = state.backup
        BY <1>2, <3>2
      <4> QED
        BY <1>1, <1>2, <4>1, Positions
    <3> QED
      BY <1>1, <1>2, <3>1, <3>2
  <2> QED
    BY <2>1, <2>2 DEF BackupsHeld
<1> QED
  BY <1>5, <1>6 DEF Typed

\* A loop that writes files.
LEMMA FilesTyped ==
    ASSUME Typed, UNCHANGED guardVars, Starting, RepairFile \/ ApplyFile \/ RollbackFile
    PROVE  Typed'
<1>1. /\ UNCHANGED <<state, backups, phase, bin, tx, onward, valid, runs, budget, edited, crashes,
                     faults, stops, exe, txn, guard, updates, before>>
  BY DEF RepairFile, ApplyFile, RollbackFile, envVars, given, guardVars
<1>2. files' \in Contents /\ todo' \subseteq Files
  <2>1. CASE RepairFile
    <3>1. phase = "repair" /\ RestoreOne(state.backup)
      BY <2>1 DEF RepairFile
    <3> QED
      BY <3>1, Positions, RestoreOneTyped DEF Typed
  <2>2. CASE RollbackFile
    <3>1. phase = "rollback" /\ RestoreOne(tx)
      BY <2>2 DEF RollbackFile
    <3> QED
      BY <3>1, Positions, RestoreOneTyped DEF Typed
  <2>4. CASE ApplyFile
    <3>1. PICK f \in todo : files' = [files EXCEPT ![f] = Applied(f)] /\ todo' = todo \ {f}
      BY <2>4 DEF ApplyFile, NextToApply
    <3>2. files \in Contents /\ todo \subseteq Files
      BY DEF Typed, TypeOK, CUTypeOK
    <3>3. Applied(f) \in Versions
      BY <3>2 DEF Applied, Versions, Contents
    <3> QED
      BY <3>1, <3>2, <3>3 DEF Contents
  <2> QED
    BY <2>1, <2>2, <2>4
<1>3. CUTypeOK'
  BY <1>1, <1>2 DEF Typed, TypeOK, CUTypeOK
<1> QED
  BY <1>1, <1>3 DEF Typed, TypeOK, BackupsHeld

LEMMA UpgradeTyped ==
    ASSUME Typed, ServerUpgrades \/ ServerHasNoPackage PROVE Typed'
BY MovesTyped, FailuresTyped, BeginTyped, FilesTyped
DEF ServerUpgrades, ServerHasNoPackage, UpgradeStep, Starting

LEMMA CommitTyped ==
    ASSUME Typed, ServerCommits PROVE Typed'
<1>1. /\ UNCHANGED <<files, backups, bin, onward, valid, runs, budget, crashes, faults, stops>>
      /\ UNCHANGED <<exe, guard, updates, before>>
      /\ tx' = 0 /\ phase' = "serve" /\ todo' = {} /\ edited' \in {edited, {}}
  BY DEF ServerCommits, Commit, Goto, given
<1>2. state' \in States /\ state'.backup \in 0 .. Len(backups)
  <2>1. \/ state' = state
        \/ state' = [status |-> "success", applied |-> bin, pkg |-> TRUE, backup |-> tx]
    BY DEF ServerCommits, Commit
  <2>2. bin \in {0, 1}
    BY DEF Typed, TypeOK, CUTypeOK
  <2>3. tx \in Nat /\ tx \in 0 .. Len(backups)
    BY Positions
  <2>4. CASE state' = state
    BY <2>4, Positions
  <2>5. CASE state' = [status |-> "success", applied |-> bin, pkg |-> TRUE, backup |-> tx]
    BY <2>2, <2>3, <2>5 DEF States
  <2> QED
    BY <2>1, <2>4, <2>5
<1>3. txn' \in Transactions
  BY DEF ServerCommits, Typed, TypeOK, Transactions
<1>4. CUTypeOK'
  <2>1. 0 \in 0 .. Len(backups)
    BY BackupsCount DEF Typed
  <2> QED
    BY <1>1, <1>2, <2>1 DEF Typed, TypeOK, CUTypeOK, Phases
<1> QED
  BY <1>1, <1>3, <1>4 DEF Typed, TypeOK, BackupsHeld, ServerCommits, Starting

LEMMA EditTyped ==
    ASSUME Typed, UserEdits PROVE Typed'
<1>1. PICK f \in Managed :
         /\ edited' = edited \cup {f}
         /\ files' = [files EXCEPT ![f] = IF @ \in {"user", "edited"} THEN "edited"
                                          ELSE "package_edited"]
  BY DEF UserEdits, Edit
<1>2. files' \in Contents /\ edited' \subseteq Managed
  BY <1>1 DEF Typed, TypeOK, CUTypeOK, Contents, Versions
<1>3. CUTypeOK'
  BY <1>2 DEF UserEdits, Edit, Typed, TypeOK, CUTypeOK, procVars, given
<1>4. before' \in [files : Contents, applied : {0, 1}]
  BY <1>2 DEF UserEdits, Typed, TypeOK
<1> QED
  BY <1>3, <1>4 DEF UserEdits, Edit, Typed, TypeOK, BackupsHeld, procVars

\* The steps of the server and of the guard that write no configuration.
LEMMA GuardTyped ==
    ASSUME Typed,
           \/ StartServer \/ ServerStops \/ InstallByHand \/ CrashAll \/ Update
           \/ WriteInstalling \/ InstallCandidate \/ WriteTesting \/ StartCandidate
           \/ CandidatePasses \/ CandidateFails \/ WriteVerified \/ SaveInstalled \/ GuardStepFails
           \/ RecoverAbandoned \/ UndoConfigFails \/ UndoBinary \/ WriteRolledBack
    PROVE  Typed'
<1>1. /\ Len(backups) \in Nat /\ state \in States /\ files \in Contents /\ faults \in Nat
      /\ tx \in 0 .. Len(backups) /\ 0 \in 0 .. Len(backups)
      /\ todo \subseteq Files
  BY Positions
<1>2. /\ phase \in Phases /\ onward \in {"down", "load"} /\ bin \in {0, 1}
      /\ edited \subseteq Managed /\ crashes \in Nat /\ stops \in Nat
      /\ exe \in {0, 1} /\ txn \in Transactions /\ updates \in Nat
      /\ guard \in {"none", "staged", "install", "installed", "start", "watch", "passed", "save",
                    "undo_files", "undo_binary", "undo_txn"}
      /\ before \in [files : Contents, applied : {0, 1}]
      /\ phase = "repair" \/ guard = "undo_files" => state.backup # 0
      /\ phase \in {"apply", "rollback"} => tx # 0
      /\ phase # "down" => guard \in {"none", "watch"}
  BY DEF Typed, TypeOK, CUTypeOK, BackupsHeld
<1>3. CASE StartServer \/ ServerStops \/ InstallByHand
  BY <1>1, <1>2, <1>3, ControlTyped
  DEF StartServer, ServerStops, InstallByHand, StartAs, Stop, Goto, Phases, diskVars, envVars, given,
      cuVars, procVars, guardVars
<1>4. CASE CrashAll
  BY <1>1, <1>2, <1>4, ControlTyped DEF CrashAll, Goto, Phases, diskVars, given
<1>5. CASE Update
  <2>1. txn' \in Transactions
    BY <1>2, <1>5 DEF Update, Transactions
  <2>2. before' \in [files : Contents, applied : {0, 1}]
    BY <1>1, <1>5 DEF Update, States
  <2> QED
    BY <1>1, <1>2, <1>5, <2>1, <2>2, ControlTyped DEF Update, Goto, Phases, diskVars, envVars, given
<1>6. CASE WriteInstalling \/ WriteTesting \/ WriteVerified
  <2>1. txn' \in Transactions
    BY <1>2, <1>6 DEF WriteInstalling, WriteTesting, WriteVerified, SetStatus, Transactions
  <2>2. faults' \in Nat
    BY <1>1, <1>6 DEF WriteInstalling, WriteTesting, WriteVerified, Fault
  <2> QED
    BY <1>1, <1>2, <1>6, <2>1, <2>2, ControlTyped
    DEF WriteInstalling, WriteTesting, WriteVerified, GuardWrites, diskVars, procVars, given
<1>7. CASE InstallCandidate \/ SaveInstalled
  BY <1>1, <1>2, <1>7, ControlTyped
  DEF InstallCandidate, SaveInstalled, GuardWrites, diskVars, procVars, given
<1>8. CASE StartCandidate \/ CandidatePasses
  BY <1>1, <1>2, <1>8, ControlTyped
  DEF StartCandidate, CandidatePasses, Goto, Phases, diskVars, envVars, given
<1>9. CASE CandidateFails \/ RecoverAbandoned \/ GuardStepFails
  <2>1. faults' \in Nat
    BY <1>1, <1>9 DEF CandidateFails, RecoverAbandoned, GuardStepFails, Fault, envVars
  <2>2. /\ guard' \in {"undo_files", "undo_binary"} /\ todo' \subseteq Files
        /\ guard' = "undo_files" => state.backup # 0
    BY <1>9 DEF CandidateFails, RecoverAbandoned, GuardStepFails, BeginUndo, NeedsRestore
  <2>3. phase' \in {phase, "down"} /\ tx' \in {tx, 0} /\ (tx' = tx \/ phase' = "down")
    BY <1>9 DEF CandidateFails, RecoverAbandoned, GuardStepFails
  <2> QED
    BY <1>1, <1>2, <1>9, <2>1, <2>2, <2>3, ControlTyped
    DEF CandidateFails, RecoverAbandoned, GuardStepFails, Phases, diskVars, envVars, given
<1>10. CASE UndoConfigFails
  BY <1>1, <1>2, <1>10, ControlTyped DEF UndoConfigFails, Fault, diskVars, given
<1>11. CASE UndoBinary \/ WriteRolledBack
  <2>1. txn' \in Transactions /\ exe' \in {0, 1}
    BY <1>2, <1>11 DEF UndoBinary, WriteRolledBack, SetStatus, Transactions
  <2>2. faults' \in Nat
    BY <1>1, <1>11 DEF UndoBinary, WriteRolledBack, Fault
  <2> QED
    BY <1>1, <1>2, <1>11, <2>1, <2>2, ControlTyped
    DEF UndoBinary, WriteRolledBack, GuardWrites, diskVars, procVars, given
<1> QED
  BY <1>3, <1>4, <1>5, <1>6, <1>7, <1>8, <1>9, <1>10, <1>11

LEMMA UndoTyped ==
    ASSUME Typed, UndoFile \/ UndoRecord PROVE Typed'
<1>1. state.backup \in 1 .. Len(backups) /\ Len(backups) \in Nat
  BY Positions DEF UndoFile, UndoRecord
<1>2. CASE UndoFile
  <2>1. files' \in Contents /\ todo' \subseteq Files
    BY <1>1, <1>2, RestoreOneTyped DEF UndoFile, Typed
  <2>2. CUTypeOK'
    BY <1>2, <2>1 DEF UndoFile, Typed, TypeOK, CUTypeOK, envVars, given
  <2> QED
    BY <1>2, <2>2 DEF UndoFile, Typed, TypeOK, BackupsHeld, guardVars
<1>3. CASE UndoRecord
  <2>1. state' \in States /\ state'.backup \in 0 .. Len(backups)
    <3>1. state' = backups[state.backup].prev
      BY <1>3 DEF UndoRecord
    <3> QED
      BY <1>1, <3>1, BackupTyped DEF Typed, BackupsHeld
  <2>2. CUTypeOK'
    <3>1. UNCHANGED <<files, backups, phase, bin, tx, todo, onward, valid, runs, budget, edited,
                      crashes, faults, stops>>
      BY <1>3 DEF UndoRecord, envVars, given, procVars
    <3> QED
      BY <2>1, <3>1 DEF Typed, TypeOK, CUTypeOK
  <2>3. phase = "down"
    BY <1>3, Positions DEF UndoRecord
  <2>4. BackupsHeld'
    BY <1>3, <2>3 DEF UndoRecord, Typed, BackupsHeld, procVars
  <2> QED
    BY <1>3, <2>2, <2>4 DEF UndoRecord, Typed, TypeOK
<1> QED
  BY <1>2, <1>3

LEMMA TypedInductive == Typed /\ [Next]_vars => Typed'
<1> SUFFICES ASSUME Typed, [Next]_vars PROVE Typed'
  OBVIOUS
<1>1. CASE UNCHANGED vars
  BY <1>1 DEF vars, cuVars, diskVars, procVars, envVars, given, guardVars, Typed, TypeOK, CUTypeOK,
              BackupsHeld
<1> QED
  BY <1>1, UpgradeTyped, CommitTyped, EditTyped, GuardTyped, UndoTyped
  DEF Next, ServerStep, GuardStep

-----------------------------------------------------------------------------
(* No write has failed.                                                     *)

\* The values that the steps below tell apart.
LEMMA Values ==
    ASSUME Typed
    PROVE  /\ bin \in {0, 1} /\ exe \in {0, 1} /\ phase \in Phases /\ onward \in {"down", "load"}
           /\ guard \in {"none", "staged", "install", "installed", "start", "watch", "passed", "save",
                         "undo_files", "undo_binary", "undo_txn"}
           /\ state \in States /\ txn \in Transactions /\ txn.prev \in {0, 1}
           /\ txn.package \in BOOLEAN /\ state.applied \in {0, 1} /\ faults \in Nat
           /\ before \in [files : Contents, applied : {0, 1}]
BY DEF Typed, TypeOK, CUTypeOK, States, Transactions

\* What depends on the disk only, and on the loops over its files.
LEMMA RecordsKept ==
    ASSUME UNCHANGED <<state, backups>>
    PROVE  (InProgress' = InProgress) /\ (RecordsMean => RecordsMean')
<1>1. InProgress' = InProgress
  BY DEF InProgress
<1>2. RecordsMean => RecordsMean'
  BY DEF InProgress, RecordsMean, OldFiles
<1> QED
  BY <1>1, <1>2

LEMMA DiskKept ==
    ASSUME UNCHANGED <<files, state, backups>>
    PROVE  /\ Whole => Whole'
           /\ NewConfig' = NewConfig
           /\ InProgress' = InProgress
           /\ RecordsMean => RecordsMean'
<1>1. Whole => Whole'
  BY DEF Whole, NewConfig, OldConfig
<1>2. NewConfig' = NewConfig
  BY DEF NewConfig
<1> QED
  BY <1>1, <1>2, RecordsKept

\* The loop has not moved.
LEMMA LoopKept ==
    ASSUME UNCHANGED <<files, state, backups, todo>>
    PROVE  /\ RecordRestored => RecordRestored'
           /\ AppliedSoFar => AppliedSoFar'
           /\ tx' = tx => (TxRestored => TxRestored')
BY DEF RecordRestored, AppliedSoFar, TxRestored, RestoredFrom

\* The loop begins.
LEMMA LoopBegins ==
    ASSUME todo' = Files
    PROVE  RecordRestored' /\ AppliedSoFar' /\ TxRestored'
BY DEF RecordRestored, AppliedSoFar, TxRestored, RestoredFrom, Files

\* What the records mean, without the backups.
LEMMA RecordsSay ==
    ASSUME RecordsMean
    PROVE  /\ InProgress => state.pkg /\ state.backup # 0 /\ state.applied = 0
           /\ state.applied = 1 => state.pkg /\ state.backup # 0
BY DEF RecordsMean

LEMMA AllApplied == AppliedSoFar /\ todo = {} => NewConfig
BY DEF AppliedSoFar, NewConfig

Sound == Typed /\ faults = 0 /\ NoFault

\* The steps of a start that only move on.
LEMMA StartMovesKeep ==
    ASSUME Sound, faults' = 0, UNCHANGED guardVars, Starting,
           RequiresNothing \/ CheckRecord \/ UpToDate \/ Validate \/ LoadSucceeds \/ LoadFails
    PROVE  NoFault'
<1> USE Values, RecordsSay
    DEF Sound, NoFault, NeedsRestore, Unfinished, Updating,
        Starting, guardVars, Goto, Interrupted, Rollback, MayRun, MayFail, envVars, given
<1>1. UNCHANGED <<files, state, backups, budget>>
  <2>1. CASE RequiresNothing
    BY <2>1 DEF RequiresNothing, diskVars, envVars, given, cuVars
  <2>2. CASE CheckRecord
    BY <2>2 DEF CheckRecord, diskVars, envVars, given, cuVars
  <2>3. CASE UpToDate
    BY <2>3 DEF UpToDate, diskVars, envVars, given, cuVars
  <2>4. CASE Validate
    BY <2>4 DEF Validate, diskVars, envVars, given, cuVars
  <2>5. CASE LoadSucceeds
    BY <2>5 DEF LoadSucceeds, diskVars, envVars, given, cuVars
  <2>6. CASE LoadFails
    BY <2>6 DEF LoadFails, diskVars, envVars, given, cuVars
  <2> QED
    BY <2>1, <2>2, <2>3, <2>4, <2>5, <2>6
<1>2. RecordsMean'
  BY <1>1, DiskKept
<1>3. Placed'
  <2>1. CASE RequiresNothing
    BY <1>1, <2>1, DiskKept
    DEF Placed, InProgress, RequiresNothing
  <2>2. CASE CheckRecord
    BY <1>1, <2>2, DiskKept
    DEF Placed, InProgress, CheckRecord
  <2>3. CASE UpToDate
    BY <1>1, <2>3, DiskKept
    DEF Placed, InProgress, UpToDate
  <2>4. CASE Validate
    BY <1>1, <2>4, DiskKept
    DEF Placed, InProgress, Validate
  <2>5. CASE LoadSucceeds
    BY <1>1, <2>5, DiskKept
    DEF Placed, InProgress, LoadSucceeds
  <2>6. CASE LoadFails
    BY <1>1, <2>6, DiskKept
    DEF Placed, InProgress, LoadFails
  <2> QED
    BY <2>1, <2>2, <2>3, <2>4, <2>5, <2>6
<1>4. Matched'
  <2>1. CASE RequiresNothing
    BY <1>1, <2>1, DiskKept
    DEF Matched, Placed, InProgress, RequiresNothing
  <2>2. CASE CheckRecord
    BY <1>1, <2>2, DiskKept
    DEF Matched, Placed, InProgress, CheckRecord
  <2>3. CASE UpToDate
    BY <1>1, <2>3, DiskKept
    DEF Matched, Placed, InProgress, UpToDate
  <2>4. CASE Validate
    BY <1>1, <2>4, DiskKept
    DEF Matched, Placed, InProgress, Validate
  <2>5. CASE LoadSucceeds
    BY <1>1, <2>5, DiskKept
    DEF Matched, Placed, InProgress, LoadSucceeds
  <2>6. CASE LoadFails
    BY <1>1, <2>6, DiskKept
    DEF Matched, Placed, InProgress, LoadFails
  <2> QED
    BY <2>1, <2>2, <2>3, <2>4, <2>5, <2>6
<1>5. FilesMatch'
  <2>1. CASE RequiresNothing
    BY <1>1, <2>1, DiskKept, LoopKept, LoopBegins, AllApplied
    DEF FilesMatch, Matched, Placed, RequiresNothing
  <2>2. CASE CheckRecord
    <3>1. /\ phase = "prepare" /\ bin > 0 /\ UNCHANGED <<bin, tx, txn, guard>>
          /\ \/ InProgress /\ phase' = "repair" /\ todo' = Files
             \/ ~Interrupted /\ phase' = "upgrade"
      BY <2>2 DEF CheckRecord, InProgress
    <3>2. tx = 0 /\ (InProgress => Interrupted) /\ (Whole \/ InProgress)
      BY <3>1 DEF Placed, FilesMatch, InProgress
    <3>3. (InProgress' = InProgress) /\ (Whole => Whole')
      BY <1>1, DiskKept
    <3> HIDE DEF Sound, NoFault
    <3> QED
      BY <3>1, <3>2, <3>3, LoopBegins DEF FilesMatch
  <2>3. CASE UpToDate
    BY <1>1, <2>3, DiskKept, LoopKept, LoopBegins, AllApplied
    DEF FilesMatch, Matched, Placed, UpToDate
  <2>4. CASE Validate
    <3>1. /\ phase = "apply" /\ todo = {} /\ UNCHANGED <<tx, txn, guard>>
          /\ phase' = "load" \/ (phase' = "rollback" /\ todo' = Files)
      BY <2>4 DEF Validate
    <3>2. tx # 0 /\ InProgress /\ NewConfig
      BY <3>1, Positions, AllApplied DEF Placed, FilesMatch
    <3>3. InProgress' /\ NewConfig'
      BY <1>1, <3>2, DiskKept
    <3> HIDE DEF Sound, NoFault
    <3> QED
      BY <3>1, <3>2, <3>3, LoopBegins DEF FilesMatch
  <2>5. CASE LoadSucceeds
    BY <1>1, <2>5, DiskKept, LoopKept, LoopBegins, AllApplied
    DEF FilesMatch, Matched, Placed, LoadSucceeds
  <2>6. CASE LoadFails
    BY <1>1, <2>6, DiskKept, LoopKept, LoopBegins, AllApplied
    DEF FilesMatch, Matched, Placed, LoadFails
  <2> QED
    BY <2>1, <2>2, <2>3, <2>4, <2>5, <2>6
<1>6. ASSUME ~budget'.install PROVE FirstOnly'
  <2>1. CASE RequiresNothing
    BY <1>6, <1>1, <2>1, DiskKept
    DEF FirstOnly, Placed, Matched, FirstState, InProgress, RequiresNothing
  <2>2. CASE CheckRecord
    BY <1>6, <1>1, <2>2, DiskKept
    DEF FirstOnly, Placed, Matched, FirstState, InProgress, CheckRecord
  <2>3. CASE UpToDate
    BY <1>6, <1>1, <2>3, DiskKept
    DEF FirstOnly, Placed, Matched, FirstState, InProgress, UpToDate
  <2>4. CASE Validate
    BY <1>6, <1>1, <2>4, DiskKept
    DEF FirstOnly, Placed, Matched, FirstState, InProgress, Validate
  <2>5. CASE LoadSucceeds
    BY <1>6, <1>1, <2>5, DiskKept
    DEF FirstOnly, Placed, Matched, FirstState, InProgress, LoadSucceeds
  <2>6. CASE LoadFails
    BY <1>6, <1>1, <2>6, DiskKept
    DEF FirstOnly, Placed, Matched, FirstState, InProgress, LoadFails
  <2> QED
    BY <2>1, <2>2, <2>3, <2>4, <2>5, <2>6
<1>7. ASSUME ~budget'.install PROVE FilesFound'
  <2>1. CASE RequiresNothing
    BY <1>7, <1>1, <2>1, DiskKept
    DEF FilesFound, FirstOnly, Placed, Matched, FirstState, InProgress, KeptIn, RequiresNothing
  <2>2. CASE CheckRecord
    BY <1>7, <1>1, <2>2, DiskKept
    DEF FilesFound, FirstOnly, Placed, Matched, FirstState, InProgress, KeptIn, CheckRecord
  <2>3. CASE UpToDate
    BY <1>7, <1>1, <2>3, DiskKept
    DEF FilesFound, FirstOnly, Placed, Matched, FirstState, InProgress, KeptIn, UpToDate
  <2>4. CASE Validate
    <3>1. /\ phase = "apply" /\ phase' \in {"load", "rollback"}
          /\ UNCHANGED <<tx, txn, guard, exe, before, edited>>
      BY <2>4 DEF Validate
    <3>2. FilesFound
      BY <1>7, <1>1
    <3>3. tx # 0
      BY <3>1, Positions
    <3> HIDE DEF Sound, NoFault
    <3> QED
      BY <1>1, <3>1, <3>2, <3>3 DEF FilesFound, FirstState, KeptIn
  <2>5. CASE LoadSucceeds
    BY <1>7, <1>1, <2>5, DiskKept
    DEF FilesFound, FirstOnly, Placed, Matched, FirstState, InProgress, KeptIn, LoadSucceeds
  <2>6. CASE LoadFails
    BY <1>7, <1>1, <2>6, DiskKept
    DEF FilesFound, FirstOnly, Placed, Matched, FirstState, InProgress, KeptIn, LoadFails
  <2> QED
    BY <2>1, <2>2, <2>3, <2>4, <2>5, <2>6
<1> QED
  BY <1>2, <1>3, <1>4, <1>5, <1>6, <1>7

\* The server starts, stops, dies or becomes the guard.
LEMMA ServerMovesKeep ==
    ASSUME Sound, faults' = 0,
           StartServer \/ ServerStops \/ InstallByHand \/ CrashAll \/ Update
    PROVE  NoFault'
<1> USE Values, RecordsSay
    DEF Sound, NoFault, NeedsRestore, Unfinished, Updating,
        StartAs, Stop, Goto, cuVars, diskVars, procVars, envVars, given, guardVars
<1>1. UNCHANGED <<files, state, backups, budget>>
  <2>1. CASE StartServer
    BY <2>1 DEF StartServer, diskVars, envVars, given, cuVars
  <2>2. CASE ServerStops
    BY <2>2 DEF ServerStops, diskVars, envVars, given, cuVars
  <2>3. CASE InstallByHand
    BY <2>3 DEF InstallByHand, diskVars, envVars, given, cuVars
  <2>4. CASE CrashAll
    BY <2>4 DEF CrashAll, diskVars, envVars, given, cuVars
  <2>5. CASE Update
    BY <2>5 DEF Update, diskVars, envVars, given, cuVars
  <2> QED
    BY <2>1, <2>2, <2>3, <2>4, <2>5
<1>2. RecordsMean'
  BY <1>1, DiskKept
<1>3. Placed'
  <2>1. CASE StartServer
    BY <1>1, <2>1, DiskKept
    DEF Placed, InProgress, StartServer
  <2>2. CASE ServerStops
    BY <1>1, <2>2, DiskKept
    DEF Placed, InProgress, ServerStops
  <2>3. CASE InstallByHand
    BY <1>1, <2>3, DiskKept
    DEF Placed, InProgress, InstallByHand
  <2>4. CASE CrashAll
    BY <1>1, <2>4, DiskKept
    DEF Placed, InProgress, CrashAll
  <2>5. CASE Update
    BY <1>1, <2>5, DiskKept
    DEF Placed, InProgress, Update
  <2> QED
    BY <2>1, <2>2, <2>3, <2>4, <2>5
<1>4. Matched'
  <2>1. CASE StartServer
    BY <1>1, <2>1, DiskKept
    DEF Matched, Placed, InProgress, StartServer
  <2>2. CASE ServerStops
    BY <1>1, <2>2, DiskKept
    DEF Matched, Placed, InProgress, ServerStops
  <2>3. CASE InstallByHand
    BY <1>1, <2>3, DiskKept
    DEF Matched, Placed, InProgress, InstallByHand
  <2>4. CASE CrashAll
    BY <1>1, <2>4, DiskKept
    DEF Matched, Placed, InProgress, CrashAll
  <2>5. CASE Update
    <3>1. /\ guard = "none" /\ phase = "serve" /\ phase' = "down" /\ guard' = "staged"
          /\ txn' = [status |-> "staged", package |-> state.applied < 1, prev |-> exe]
          /\ UNCHANGED <<exe, bin>>
      BY <2>5 DEF Update
    <3>2. exe = 0 => state.applied = 0 /\ ~InProgress
      BY <3>1 DEF Placed, Matched
    <3>3. /\ txn'.status = "staged" /\ txn'.prev = exe
          /\ state.applied # 1 => txn'.package
      <4>1. txn'.status = "staged" /\ txn'.prev = exe /\ (state.applied < 1 => txn'.package)
        BY <3>1
      <4>2. state.applied # 1 => state.applied < 1
        BY Values
      <4> QED
        BY <4>1, <4>2
    <3>4. exe = 1 \/ txn'.package
      BY <3>2, <3>3
    <3>5. InProgress' = InProgress
      BY <1>1, DiskKept
    <3> HIDE DEF Sound, NoFault
    <3> QED
      BY <1>1, <3>1, <3>2, <3>3, <3>4, <3>5 DEF Matched
  <2> QED
    BY <2>1, <2>2, <2>3, <2>4, <2>5
<1>5. FilesMatch'
  <2>1. CASE StartServer
    BY <1>1, <2>1, DiskKept, LoopKept, LoopBegins, AllApplied
    DEF FilesMatch, Matched, Placed, StartServer
  <2>2. CASE ServerStops
    BY <1>1, <2>2, DiskKept, LoopKept, LoopBegins, AllApplied
    DEF FilesMatch, Matched, Placed, ServerStops
  <2>3. CASE InstallByHand
    BY <1>1, <2>3, DiskKept, LoopKept, LoopBegins, AllApplied
    DEF FilesMatch, Matched, Placed, InstallByHand
  <2>4. CASE CrashAll
    BY <1>1, <2>4, DiskKept, LoopKept, LoopBegins, AllApplied
    DEF FilesMatch, Matched, Placed, CrashAll
  <2>5. CASE Update
    BY <1>1, <2>5, DiskKept, LoopKept, LoopBegins, AllApplied
    DEF FilesMatch, Matched, Placed, Update
  <2> QED
    BY <2>1, <2>2, <2>3, <2>4, <2>5
<1>6. ASSUME ~budget'.install PROVE FirstOnly'
  <2>1. CASE StartServer
    BY <1>6, <1>1, <2>1, DiskKept
    DEF FirstOnly, Placed, Matched, FirstState, InProgress, StartServer
  <2>2. CASE ServerStops
    BY <1>6, <1>1, <2>2, DiskKept
    DEF FirstOnly, Placed, Matched, FirstState, InProgress, ServerStops
  <2>3. CASE InstallByHand
    BY <1>6, <1>1, <2>3, DiskKept
    DEF FirstOnly, Placed, Matched, FirstState, InProgress, InstallByHand
  <2>4. CASE CrashAll
    BY <1>6, <1>1, <2>4, DiskKept
    DEF FirstOnly, Placed, Matched, FirstState, InProgress, CrashAll
  <2>5. CASE Update
    <3>1. /\ guard = "none" /\ phase = "serve" /\ phase' = "down" /\ guard' = "staged"
          /\ txn' = [status |-> "staged", package |-> state.applied < 1, prev |-> exe]
          /\ UNCHANGED exe
      BY <2>5 DEF Update
    <3>2. FirstOnly /\ ~Updating
      BY <1>6, <1>1, <3>1 DEF Placed
    <3>3. (exe = 1 /\ state.applied = 1) \/ (exe = 0 /\ state = FirstState)
      BY <3>2 DEF FirstOnly
    <3>4. (txn'.package <=> exe = 0) /\ txn'.prev = exe
      <4>1. txn'.package <=> state.applied < 1
        BY <3>1
      <4>2. (exe = 0 => state.applied = 0) /\ (exe # 0 => state.applied = 1)
        BY <3>3 DEF FirstState
      <4> QED
        BY <3>1, <4>1, <4>2
    <3>5. txn'.prev = IF txn'.package THEN 0 ELSE 1
      BY <3>3, <3>4
    <3>6. txn'.package => state' = FirstState
      BY <1>1, <3>3, <3>4
    <3> HIDE DEF Sound, NoFault
    <3> QED
      BY <1>1, <3>1, <3>2, <3>4, <3>5, <3>6 DEF FirstOnly, FirstState
  <2> QED
    BY <2>1, <2>2, <2>3, <2>4, <2>5
<1>7. ASSUME ~budget'.install PROVE FilesFound'
  <2>1. CASE StartServer
    BY <1>7, <1>1, <2>1, DiskKept
    DEF FilesFound, FirstOnly, Placed, Matched, FirstState, InProgress, KeptIn, StartServer
  <2>2. CASE ServerStops
    BY <1>7, <1>1, <2>2, DiskKept
    DEF FilesFound, FirstOnly, Placed, Matched, FirstState, InProgress, KeptIn, ServerStops
  <2>3. CASE InstallByHand
    BY <1>7, <1>1, <2>3, DiskKept
    DEF FilesFound, FirstOnly, Placed, Matched, FirstState, InProgress, KeptIn, InstallByHand
  <2>4. CASE CrashAll
    BY <1>7, <1>1, <2>4, DiskKept
    DEF FilesFound, FirstOnly, Placed, Matched, FirstState, InProgress, KeptIn, CrashAll
  <2>5. CASE Update
    <3>1. /\ guard = "none" /\ phase = "serve" /\ phase' = "down" /\ guard' = "staged"
          /\ txn' = [status |-> "staged", package |-> state.applied < 1, prev |-> exe]
          /\ before' = [files |-> files, applied |-> state.applied]
          /\ UNCHANGED <<exe, edited>>
      BY <2>5 DEF Update, envVars
    <3>2. FirstOnly /\ FilesFound /\ ~Updating
      BY <1>7, <1>1, <3>1 DEF Placed
    <3>3. (exe = 1 /\ state.applied = 1) \/ (exe = 0 /\ state = FirstState)
      BY <3>2 DEF FirstOnly
    <3>4. txn'.package <=> exe = 0
      <4>1. txn'.package <=> state.applied < 1
        BY <3>1
      <4>2. (exe = 0 => state.applied = 0) /\ (exe # 0 => state.applied = 1)
        BY <3>3 DEF FirstState
      <4> QED
        BY <3>1, <4>1, <4>2
    <3>5. before'.files = files /\ before'.applied = IF txn'.package THEN 0 ELSE 1
      BY <3>1, <3>3, <3>4 DEF FirstState
    <3>6. KeptIn(files)
      BY <3>2 DEF FilesFound
    <3>7. txn'.package => state' = FirstState /\ state'.applied = 0
      BY <1>1, <3>3, <3>4 DEF FirstState
    <3> HIDE DEF Sound, NoFault
    <3> QED
      BY <1>1, <3>1, <3>5, <3>6, <3>7 DEF FilesFound, KeptIn
  <2> QED
    BY <2>1, <2>2, <2>3, <2>4, <2>5
<1> QED
  BY <1>2, <1>3, <1>4, <1>5, <1>6, <1>7

\* The guard installs the candidate, starts it and lets it take over.
LEMMA GuardMovesKeep ==
    ASSUME Sound, faults' = 0,
           WriteInstalling \/ InstallCandidate \/ WriteTesting \/ StartCandidate \/ CandidatePasses \/ WriteVerified \/ SaveInstalled
    PROVE  NoFault'
<1> USE Values, RecordsSay
    DEF Sound, NoFault, NeedsRestore, Unfinished, Updating,
        GuardWrites, SetStatus, Transactions, Fault, Goto, diskVars, procVars, envVars, given
<1>1. UNCHANGED <<files, state, backups, budget>>
  <2>1. CASE WriteInstalling
    BY <2>1 DEF WriteInstalling, diskVars, envVars, given, cuVars
  <2>2. CASE InstallCandidate
    BY <2>2 DEF InstallCandidate, diskVars, envVars, given, cuVars
  <2>3. CASE WriteTesting
    BY <2>3 DEF WriteTesting, diskVars, envVars, given, cuVars
  <2>4. CASE StartCandidate
    BY <2>4 DEF StartCandidate, diskVars, envVars, given, cuVars
  <2>5. CASE CandidatePasses
    BY <2>5 DEF CandidatePasses, diskVars, envVars, given, cuVars
  <2>6. CASE WriteVerified
    BY <2>6 DEF WriteVerified, diskVars, envVars, given, cuVars
  <2>7. CASE SaveInstalled
    BY <2>7 DEF SaveInstalled, diskVars, envVars, given, cuVars
  <2> QED
    BY <2>1, <2>2, <2>3, <2>4, <2>5, <2>6, <2>7
<1>2. RecordsMean'
  BY <1>1, DiskKept
<1>3. Placed'
  <2>1. CASE WriteInstalling
    BY <1>1, <2>1, DiskKept
    DEF Placed, InProgress, WriteInstalling
  <2>2. CASE InstallCandidate
    BY <1>1, <2>2, DiskKept
    DEF Placed, InProgress, InstallCandidate
  <2>3. CASE WriteTesting
    BY <1>1, <2>3, DiskKept
    DEF Placed, InProgress, WriteTesting
  <2>4. CASE StartCandidate
    <3>1. /\ guard = "start" /\ guard' = "watch" /\ UNCHANGED <<tx, txn>>
      BY <2>4 DEF StartCandidate
    <3>2. Unfinished /\ tx = 0
      BY <3>1, Positions DEF Placed
    <3> HIDE DEF Sound, NoFault
    <3> QED
      BY <3>1, <3>2 DEF Placed
  <2>5. CASE CandidatePasses
    BY <1>1, <2>5, DiskKept
    DEF Placed, InProgress, CandidatePasses
  <2>6. CASE WriteVerified
    BY <1>1, <2>6, DiskKept
    DEF Placed, InProgress, WriteVerified
  <2>7. CASE SaveInstalled
    BY <1>1, <2>7, DiskKept
    DEF Placed, InProgress, SaveInstalled
  <2> QED
    BY <2>1, <2>2, <2>3, <2>4, <2>5, <2>6, <2>7
<1>4. Matched'
  <2>1. CASE WriteInstalling
    BY <1>1, <2>1, DiskKept
    DEF Matched, Placed, InProgress, WriteInstalling
  <2>2. CASE InstallCandidate
    BY <1>1, <2>2, DiskKept
    DEF Matched, Placed, InProgress, InstallCandidate
  <2>3. CASE WriteTesting
    BY <1>1, <2>3, DiskKept
    DEF Matched, Placed, InProgress, WriteTesting
  <2>4. CASE StartCandidate
    BY <1>1, <2>4, DiskKept
    DEF Matched, Placed, InProgress, StartCandidate
  <2>5. CASE CandidatePasses
    BY <1>1, <2>5, DiskKept
    DEF Matched, Placed, InProgress, CandidatePasses
  <2>6. CASE WriteVerified
    BY <1>1, <2>6, DiskKept
    DEF Matched, Placed, InProgress, WriteVerified
  <2>7. CASE SaveInstalled
    BY <1>1, <2>7, DiskKept
    DEF Matched, Placed, InProgress, SaveInstalled
  <2> QED
    BY <2>1, <2>2, <2>3, <2>4, <2>5, <2>6, <2>7
<1>5. FilesMatch'
  <2>1. CASE WriteInstalling
    BY <1>1, <2>1, DiskKept, LoopKept, LoopBegins, AllApplied
    DEF FilesMatch, Matched, Placed, WriteInstalling
  <2>2. CASE InstallCandidate
    BY <1>1, <2>2, DiskKept, LoopKept, LoopBegins, AllApplied
    DEF FilesMatch, Matched, Placed, InstallCandidate
  <2>3. CASE WriteTesting
    BY <1>1, <2>3, DiskKept, LoopKept, LoopBegins, AllApplied
    DEF FilesMatch, Matched, Placed, WriteTesting
  <2>4. CASE StartCandidate
    BY <1>1, <2>4, DiskKept, LoopKept, LoopBegins, AllApplied
    DEF FilesMatch, Matched, Placed, StartCandidate
  <2>5. CASE CandidatePasses
    BY <1>1, <2>5, DiskKept, LoopKept, LoopBegins, AllApplied
    DEF FilesMatch, Matched, Placed, CandidatePasses
  <2>6. CASE WriteVerified
    BY <1>1, <2>6, DiskKept, LoopKept, LoopBegins, AllApplied
    DEF FilesMatch, Matched, Placed, WriteVerified
  <2>7. CASE SaveInstalled
    BY <1>1, <2>7, DiskKept, LoopKept, LoopBegins, AllApplied
    DEF FilesMatch, Matched, Placed, SaveInstalled
  <2> QED
    BY <2>1, <2>2, <2>3, <2>4, <2>5, <2>6, <2>7
<1>6. ASSUME ~budget'.install PROVE FirstOnly'
  <2>1. CASE WriteInstalling
    BY <1>6, <1>1, <2>1, DiskKept
    DEF FirstOnly, Placed, Matched, FirstState, InProgress, WriteInstalling
  <2>2. CASE InstallCandidate
    BY <1>6, <1>1, <2>2, DiskKept
    DEF FirstOnly, Placed, Matched, FirstState, InProgress, InstallCandidate
  <2>3. CASE WriteTesting
    BY <1>6, <1>1, <2>3, DiskKept
    DEF FirstOnly, Placed, Matched, FirstState, InProgress, WriteTesting
  <2>4. CASE StartCandidate
    BY <1>6, <1>1, <2>4, DiskKept
    DEF FirstOnly, Placed, Matched, FirstState, InProgress, StartCandidate
  <2>5. CASE CandidatePasses
    BY <1>6, <1>1, <2>5, DiskKept
    DEF FirstOnly, Placed, Matched, FirstState, InProgress, CandidatePasses
  <2>6. CASE WriteVerified
    BY <1>6, <1>1, <2>6, DiskKept
    DEF FirstOnly, Placed, Matched, FirstState, InProgress, WriteVerified
  <2>7. CASE SaveInstalled
    BY <1>6, <1>1, <2>7, DiskKept
    DEF FirstOnly, Placed, Matched, FirstState, InProgress, SaveInstalled
  <2> QED
    BY <2>1, <2>2, <2>3, <2>4, <2>5, <2>6, <2>7
<1>7. ASSUME ~budget'.install PROVE FilesFound'
  <2>1. CASE WriteInstalling
    BY <1>7, <1>1, <2>1, DiskKept
    DEF FilesFound, FirstOnly, Placed, Matched, FirstState, InProgress, KeptIn, WriteInstalling
  <2>2. CASE InstallCandidate
    BY <1>7, <1>1, <2>2, DiskKept
    DEF FilesFound, FirstOnly, Placed, Matched, FirstState, InProgress, KeptIn, InstallCandidate
  <2>3. CASE WriteTesting
    BY <1>7, <1>1, <2>3, DiskKept
    DEF FilesFound, FirstOnly, Placed, Matched, FirstState, InProgress, KeptIn, WriteTesting
  <2>4. CASE StartCandidate
    BY <1>7, <1>1, <2>4, DiskKept
    DEF FilesFound, FirstOnly, Placed, Matched, FirstState, InProgress, KeptIn, StartCandidate
  <2>5. CASE CandidatePasses
    BY <1>7, <1>1, <2>5, DiskKept
    DEF FilesFound, FirstOnly, Placed, Matched, FirstState, InProgress, KeptIn, CandidatePasses
  <2>6. CASE WriteVerified
    BY <1>7, <1>1, <2>6, DiskKept
    DEF FilesFound, FirstOnly, Placed, Matched, FirstState, InProgress, KeptIn, WriteVerified
  <2>7. CASE SaveInstalled
    BY <1>7, <1>1, <2>7, DiskKept
    DEF FilesFound, FirstOnly, Placed, Matched, FirstState, InProgress, KeptIn, SaveInstalled
  <2> QED
    BY <2>1, <2>2, <2>3, <2>4, <2>5, <2>6, <2>7
<1> QED
  BY <1>2, <1>3, <1>4, <1>5, <1>6, <1>7

\* The guard, or a server that starts, takes the candidate back.
LEMMA UndoMovesKeep ==
    ASSUME Sound, faults' = 0,
           CandidateFails \/ RecoverAbandoned \/ UndoBinary \/ WriteRolledBack
    PROVE  NoFault'
<1> USE Values, RecordsSay
    DEF Sound, NoFault, NeedsRestore, Unfinished, Updating,
        GuardWrites, SetStatus, Transactions, Fault, BeginUndo, diskVars, procVars, envVars, given
<1>1. UNCHANGED <<files, state, backups, budget>>
  <2>1. CASE CandidateFails
    BY <2>1 DEF CandidateFails, diskVars, envVars, given, cuVars
  <2>2. CASE RecoverAbandoned
    BY <2>2 DEF RecoverAbandoned, diskVars, envVars, given, cuVars
  <2>3. CASE UndoBinary
    BY <2>3 DEF UndoBinary, diskVars, envVars, given, cuVars
  <2>4. CASE WriteRolledBack
    BY <2>4 DEF WriteRolledBack, diskVars, envVars, given, cuVars
  <2> QED
    BY <2>1, <2>2, <2>3, <2>4
<1>2. RecordsMean'
  BY <1>1, DiskKept
<1>3. Placed'
  <2>1. CASE CandidateFails
    BY <1>1, <2>1, DiskKept
    DEF Placed, InProgress, CandidateFails
  <2>2. CASE RecoverAbandoned
    BY <1>1, <2>2, DiskKept
    DEF Placed, InProgress, RecoverAbandoned
  <2>3. CASE UndoBinary
    BY <1>1, <2>3, DiskKept
    DEF Placed, InProgress, UndoBinary
  <2>4. CASE WriteRolledBack
    BY <1>1, <2>4, DiskKept
    DEF Placed, InProgress, WriteRolledBack
  <2> QED
    BY <2>1, <2>2, <2>3, <2>4
<1>4. Matched'
  <2>1. CASE CandidateFails
    BY <1>1, <2>1, DiskKept
    DEF Matched, Placed, InProgress, CandidateFails
  <2>2. CASE RecoverAbandoned
    BY <1>1, <2>2, DiskKept
    DEF Matched, Placed, InProgress, RecoverAbandoned
  <2>3. CASE UndoBinary
    <3>1. guard = "undo_binary" /\ guard' = "undo_txn" /\ exe' = txn.prev /\ Unfinished
      BY <2>3 DEF UndoBinary, Placed
    <3>2. phase = "down" /\ UNCHANGED <<phase, bin, tx, txn>>
      BY <3>1, <2>3, Positions DEF UndoBinary
    <3>3. /\ (txn.prev = 1 \/ txn.package) /\ (txn.package \/ state.applied = 1)
          /\ txn.package => state.applied = 0
          /\ txn.status # "verified"
      BY <3>1 DEF Matched
    <3> HIDE DEF Sound, NoFault
    <3> QED
      BY <1>1, <3>1, <3>2, <3>3 DEF Matched
  <2>4. CASE WriteRolledBack
    <3>1. guard = "undo_txn" /\ guard' = "none" /\ txn' = [txn EXCEPT !.status = "rolled_back"]
      BY <2>4 DEF WriteRolledBack
    <3>2. phase = "down" /\ UNCHANGED <<phase, bin, exe>>
      BY <3>1, <2>4, Positions DEF WriteRolledBack
    <3>3. ~InProgress /\ (exe = 0 => state.applied = 0)
      BY <3>1 DEF Placed, Matched, FilesMatch
    <3>4. txn'.status = "rolled_back"
      BY <3>1
    <3>5. ~InProgress'
      BY <1>1, <3>3, DiskKept
    <3> HIDE DEF Sound, NoFault
    <3> QED
      BY <1>1, <3>1, <3>2, <3>3, <3>4, <3>5 DEF Matched
  <2> QED
    BY <2>1, <2>2, <2>3, <2>4
<1>5. FilesMatch'
  <2>1. CASE CandidateFails
    BY <1>1, <2>1, DiskKept, LoopKept, LoopBegins, AllApplied
    DEF FilesMatch, Matched, Placed, CandidateFails
  <2>2. CASE RecoverAbandoned
    BY <1>1, <2>2, DiskKept, LoopKept, LoopBegins, AllApplied
    DEF FilesMatch, Matched, Placed, RecoverAbandoned
  <2>3. CASE UndoBinary
    BY <1>1, <2>3, DiskKept, LoopKept, LoopBegins, AllApplied
    DEF FilesMatch, Matched, Placed, UndoBinary
  <2>4. CASE WriteRolledBack
    BY <1>1, <2>4, DiskKept, LoopKept, LoopBegins, AllApplied
    DEF FilesMatch, Matched, Placed, WriteRolledBack
  <2> QED
    BY <2>1, <2>2, <2>3, <2>4
<1>6. ASSUME ~budget'.install PROVE FirstOnly'
  <2>1. CASE CandidateFails
    BY <1>6, <1>1, <2>1, DiskKept
    DEF FirstOnly, Placed, Matched, FirstState, InProgress, CandidateFails
  <2>2. CASE RecoverAbandoned
    BY <1>6, <1>1, <2>2, DiskKept
    DEF FirstOnly, Placed, Matched, FirstState, InProgress, RecoverAbandoned
  <2>3. CASE UndoBinary
    BY <1>6, <1>1, <2>3, DiskKept
    DEF FirstOnly, Placed, Matched, FirstState, InProgress, UndoBinary
  <2>4. CASE WriteRolledBack
    BY <1>6, <1>1, <2>4, DiskKept
    DEF FirstOnly, Placed, Matched, FirstState, InProgress, WriteRolledBack
  <2> QED
    BY <2>1, <2>2, <2>3, <2>4
<1>7. ASSUME ~budget'.install PROVE FilesFound'
  <2>1. CASE CandidateFails
    BY <1>7, <1>1, <2>1, DiskKept
    DEF FilesFound, FirstOnly, Placed, Matched, FirstState, InProgress, KeptIn, CandidateFails
  <2>2. CASE RecoverAbandoned
    BY <1>7, <1>1, <2>2, DiskKept
    DEF FilesFound, FirstOnly, Placed, Matched, FirstState, InProgress, KeptIn, RecoverAbandoned
  <2>3. CASE UndoBinary
    BY <1>7, <1>1, <2>3, DiskKept
    DEF FilesFound, FirstOnly, Placed, Matched, FirstState, InProgress, KeptIn, UndoBinary
  <2>4. CASE WriteRolledBack
    BY <1>7, <1>1, <2>4, DiskKept
    DEF FilesFound, FirstOnly, Placed, Matched, FirstState, InProgress, KeptIn, WriteRolledBack
  <2> QED
    BY <2>1, <2>2, <2>3, <2>4
<1> QED
  BY <1>2, <1>3, <1>4, <1>5, <1>6, <1>7

-----------------------------------------------------------------------------
(* The loops over the files and what they write to the records.             *)

\* Between two versions of the files the record says so; then the candidate
\* of an update with a package is at work, or binaries are installed by hand.
LEMMA OnTheWay ==
    ASSUME Sound, InProgress
    PROVE  /\ state.applied = 0 /\ state.pkg /\ state.backup # 0 /\ state # FirstState
           /\ txn.status # "verified"
           /\ Updating => txn.package
           /\ ~budget.install => Updating
           /\ ~budget.install /\ phase # "down" => guard = "watch" /\ Unfinished
<1>1. state.applied = 0 /\ state.pkg /\ state.backup # 0 /\ state # FirstState
  BY RecordsSay DEF Sound, NoFault, InProgress, FirstState
<1>2. txn.status # "verified" /\ (Updating => txn.package)
  BY <1>1 DEF Sound, NoFault, Matched
<1>3. ASSUME ~budget.install PROVE Updating
  BY <1>1, <1>3 DEF Sound, NoFault, FirstOnly
<1>4. ASSUME ~budget.install, phase # "down" PROVE guard = "watch" /\ Unfinished
  BY <1>3, <1>4, Positions DEF Sound, NoFault, Placed, Updating
<1> QED
  BY <1>1, <1>2, <1>3, <1>4

\* A step of a loop writes one file.
LEMMA FilesKeep ==
    ASSUME Sound, UNCHANGED guardVars, Starting, RepairFile \/ ApplyFile \/ RollbackFile
    PROVE  NoFault'
<1>1. /\ UNCHANGED <<state, backups, phase, bin, tx, budget, edited>>
      /\ UNCHANGED <<exe, txn, guard, before>>
      /\ phase \in {"repair", "apply", "rollback"}
  BY DEF RepairFile, ApplyFile, RollbackFile, envVars, given, guardVars
<1>2. InProgress
  BY <1>1, Positions DEF Sound, NoFault, Placed, FilesMatch
<1>3. RecordsMean' /\ InProgress'
  BY <1>1, <1>2, RecordsKept DEF Sound, NoFault
<1>4. Placed'
  BY <1>1, <1>2, <1>3, RecordsKept DEF Sound, NoFault, Placed, Unfinished, NeedsRestore
<1>5. Matched'
  BY <1>1, RecordsKept DEF Sound, NoFault, Matched, Unfinished, Updating
<1>6. FilesMatch'
  <2>1. guard' \in {"none", "watch"}
    BY <1>1 DEF Starting
  <2>2. CASE RepairFile
    <3>1. phase = "repair" /\ RestoreOne(state.backup) /\ RecordRestored
      BY <2>2 DEF RepairFile, Sound, NoFault, FilesMatch
    <3>2. PICK b \in 1 .. Len(backups) : b = state.backup
      BY <3>1, Positions DEF Sound
    <3>3. RecordRestored'
      <4>1. RestoreOne(b) /\ RestoredFrom(b)
        BY <3>1, <3>2 DEF RecordRestored, RestoreOne, RestoredFrom
      <4>2. RestoredFrom(b)'
        BY <1>1, <4>1, RestoreOneTyped DEF Sound, Typed
      <4> QED
        BY <1>1, <3>2, <4>2 DEF RecordRestored, RestoredFrom
    <3> QED
      BY <1>1, <1>3, <2>1, <3>1, <3>3 DEF FilesMatch
  <2>3. CASE RollbackFile
    <3>1. phase = "rollback" /\ RestoreOne(tx) /\ TxRestored
      BY <2>3 DEF RollbackFile, Sound, NoFault, FilesMatch
    <3>2. PICK b \in 1 .. Len(backups) : b = tx
      BY <3>1, Positions DEF Sound
    <3>3. TxRestored'
      <4>1. RestoreOne(b) /\ RestoredFrom(b)
        BY <3>1, <3>2 DEF TxRestored, RestoreOne, RestoredFrom
      <4>2. RestoredFrom(b)'
        BY <1>1, <4>1, RestoreOneTyped DEF Sound, Typed
      <4> QED
        BY <1>1, <3>2, <4>2 DEF TxRestored, RestoredFrom
    <3> QED
      BY <1>1, <1>3, <2>1, <3>1, <3>3 DEF FilesMatch
  <2>4. CASE ApplyFile
    <3>1. phase = "apply" /\ AppliedSoFar
      BY <2>4 DEF ApplyFile, Sound, NoFault, FilesMatch
    <3>2. PICK f \in todo : files' = [files EXCEPT ![f] = Applied(f)] /\ todo' = todo \ {f}
      BY <2>4 DEF ApplyFile, NextToApply
    <3>3. files \in Contents /\ todo \subseteq Files
      BY Positions DEF Sound
    <3>4. /\ f \in Managed => Applied(f) = "package"
          /\ f \in Created => Applied(f) # "absent"
          /\ f \in Deleted => Applied(f) = "absent"
      BY FilesDisjoint DEF Applied
    <3>5. /\ files'[f] = Applied(f)
          /\ \A g \in Files : g # f => files'[g] = files[g]
      BY <3>2, <3>3 DEF Contents
    <3>6. AppliedSoFar'
      BY <3>1, <3>2, <3>4, <3>5 DEF AppliedSoFar, Files
    <3> QED
      BY <1>1, <1>3, <2>1, <3>1, <3>6 DEF FilesMatch
  <2> QED
    BY <2>2, <2>3, <2>4
<1>7. ASSUME ~budget'.install PROVE FirstOnly'
  BY <1>1, <1>7 DEF Sound, NoFault, FirstOnly, Updating, Unfinished, FirstState
<1>8. ASSUME ~budget'.install PROVE FilesFound'
  <2>1. FilesFound /\ Updating /\ txn.package /\ state # FirstState
    BY <1>1, <1>2, <1>8, OnTheWay DEF Sound, NoFault
  <2>2. Updating' /\ state' # FirstState
    BY <1>1, <2>1 DEF Updating, Unfinished, FirstState
  <2>3. FirstState' = FirstState
    BY DEF FirstState
  <2> QED
    BY <1>1, <2>1, <2>2, <2>3 DEF FilesFound, KeptIn
<1> QED
  BY <1>3, <1>4, <1>5, <1>6, <1>7, <1>8 DEF NoFault

\* The backup is made of the user's files, and the candidate makes it once.
LEMMA BeginKeeps ==
    ASSUME Sound, UNCHANGED guardVars, Starting, Begin
    PROVE  NoFault'
<1>1. /\ UNCHANGED <<files, bin, budget, edited>>
      /\ UNCHANGED <<exe, txn, guard, before>>
      /\ phase = "upgrade" /\ phase' = "apply" /\ todo' = Files
      /\ state.applied < bin /\ tx' = Len(backups) + 1
      /\ state' = [state EXCEPT !.status = "in_progress", !.pkg = TRUE, !.backup = Len(backups) + 1]
      /\ guard \in {"none", "watch"}
  BY DEF Begin, envVars, given, guardVars, Starting
<1>2. bin = 1 /\ state.applied = 0 /\ ~InProgress /\ exe = 1 /\ Len(backups) \in Nat
  <2>1. bin \in {0, 1} /\ state.applied \in {0, 1} /\ Len(backups) \in Nat
    BY Values, Positions DEF Sound
  <2>2. bin = 1 /\ state.applied = 0
    BY <1>1, <2>1
  <2> QED
    BY <1>1, <2>1, <2>2 DEF Sound, NoFault, Matched, FilesMatch
<1>3. OldConfig
  BY <1>1, <1>2 DEF Sound, NoFault, Placed, FilesMatch, Whole
<1>4. state'.status = "in_progress" /\ state'.pkg /\ state'.backup = tx' /\ state'.applied = 0 /\ tx' # 0
  <2>1. state \in States
    BY Positions DEF Sound
  <2> QED
    BY <1>1, <1>2, <2>1 DEF States
<1>5. RecordsMean'
  <2>1. InProgress' /\ (state.status # "in_progress")
    BY <1>2, <1>4 DEF InProgress
  <2>2. /\ Len(backups') = Len(backups) + 1
        /\ backups'[Len(backups) + 1] = [files |-> files, prev |-> state]
        /\ \A i \in 1 .. Len(backups) : backups'[i] = backups[i]
    <3>1. backups \in Seq(Backup) /\ [files |-> files, prev |-> state] \in Backup
      BY Positions DEF Sound, Backup
    <3> QED
      BY <3>1, BackupAdded DEF Begin
  <2>3. ASSUME NEW i \in 1 .. Len(backups')
        PROVE  /\ backups'[i].prev.applied = 0 /\ backups'[i].prev.status # "in_progress"
               /\ OldFiles(backups'[i].files)
    <3>1. CASE i \in 1 .. Len(backups)
      BY <2>2, <3>1 DEF Sound, NoFault, RecordsMean
    <3>2. CASE i = Len(backups) + 1
      <4>1. backups'[i].files = files /\ backups'[i].prev = state
        BY <2>2, <3>2
      <4> QED
        BY <1>2, <1>3, <2>1, <4>1 DEF OldFiles, OldConfig
    <3> QED
      BY <1>2, <2>2, <3>1, <3>2
  <2> QED
    BY <1>4, <2>1, <2>3 DEF RecordsMean, OldFiles
<1>6. Placed'
  BY <1>1, <1>2, <1>4 DEF Sound, NoFault, Placed, InProgress, Unfinished, NeedsRestore
<1>7. Matched'
  BY <1>1, <1>2, <1>4 DEF Sound, NoFault, Matched, Unfinished, Updating
<1>8. FilesMatch'
  BY <1>1, <1>4, LoopBegins DEF FilesMatch, InProgress
<1>9. ASSUME ~budget'.install PROVE FirstOnly' /\ FilesFound'
  <2>1. FirstOnly /\ FilesFound
    BY <1>1, <1>9 DEF Sound, NoFault
  <2>2. guard = "watch" /\ Unfinished /\ Updating
    BY <1>1, <1>2, <2>1 DEF Sound, NoFault, Placed, FirstOnly, Updating
  <2>3. txn.package /\ state = FirstState /\ files = before.files /\ KeptIn(before.files)
    BY <1>1, <1>2, <2>1, <2>2 DEF Sound, NoFault, Matched, FirstOnly, FilesFound
  <2>4. /\ Len(backups') = Len(backups) + 1
        /\ backups'[Len(backups) + 1] = [files |-> files, prev |-> state]
        /\ \A i \in 1 .. Len(backups) : backups'[i] = backups[i]
    <3>1. backups \in Seq(Backup) /\ [files |-> files, prev |-> state] \in Backup
      BY Positions DEF Sound, Backup
    <3> QED
      BY <3>1, BackupAdded DEF Begin
  <2>5. \A i \in 1 .. Len(backups') : backups'[i].prev = FirstState
    BY <1>2, <2>1, <2>3, <2>4 DEF FirstOnly
  <2>6. backups'[state'.backup].files = before.files
    BY <1>1, <1>4, <2>3, <2>4
  <2>7. Updating' /\ state' # FirstState /\ FirstState' = FirstState
    BY <1>1, <1>4, <2>2 DEF Updating, Unfinished, FirstState
  <2>8. FirstOnly'
    BY <1>1, <1>4, <2>1, <2>2, <2>5, <2>7 DEF FirstOnly
  <2>9. FilesFound'
    BY <1>1, <1>4, <2>1, <2>2, <2>3, <2>6, <2>7 DEF FilesFound, KeptIn
  <2> QED
    BY <2>8, <2>9
<1> QED
  BY <1>5, <1>6, <1>7, <1>8, <1>9 DEF NoFault

\* What a backup gives back: the user's files.
LEMMA BackupMeans ==
    ASSUME Sound, NEW b \in 1 .. Len(backups)
    PROVE  /\ backups[b].prev \in States
           /\ backups[b].prev.applied = 0 /\ backups[b].prev.status # "in_progress"
           /\ RestoredFrom(b) /\ todo = {} => files = backups[b].files /\ OldConfig
<1>1. backups[b].prev \in States
  BY BackupTyped DEF Sound, Typed
<1>2. /\ backups[b].prev.applied = 0 /\ backups[b].prev.status # "in_progress"
      /\ OldFiles(backups[b].files)
  BY DEF Sound, NoFault, RecordsMean
<1>3. ASSUME RestoredFrom(b), todo = {} PROVE files = backups[b].files
  BY <1>3, AllRestored DEF Sound, Typed
<1> QED
  BY <1>1, <1>2, <1>3 DEF OldFiles, OldConfig

LEMMA RepairedKeeps ==
    ASSUME Sound, faults' = 0, UNCHANGED guardVars, Starting, Repaired
    PROVE  NoFault'
<1>1. /\ UNCHANGED <<files, backups, bin, tx, budget, edited>>
      /\ UNCHANGED <<exe, txn, guard, before>>
      /\ phase = "repair" /\ phase' = "upgrade" /\ todo = {} /\ guard \in {"none", "watch"}
  BY DEF Repaired, Goto, given, guardVars, Starting
<1>2. InProgress /\ RecordRestored /\ tx = 0
  BY <1>1 DEF Sound, NoFault, Placed, FilesMatch
<1>3. PICK b \in 1 .. Len(backups) : b = state.backup /\ b # 0
  BY <1>1, Positions DEF Sound
<1>4. /\ backups[b].prev \in States /\ backups[b].prev.applied = 0
      /\ OldConfig
  BY <1>1, <1>2, <1>3, BackupMeans DEF RecordRestored, RestoredFrom
<1>5. state' = [backups[b].prev EXCEPT !.status = "failed", !.pkg = state.pkg, !.backup = b]
  BY <1>3 DEF Repaired, RecordFailure, Sound
<1>6. state'.applied = 0 /\ state'.status = "failed" /\ ~InProgress' /\ Whole'
  <2>1. state'.applied = 0 /\ state'.status = "failed"
    BY <1>4, <1>5 DEF States
  <2> QED
    BY <1>1, <1>4, <2>1 DEF InProgress, Whole, OldConfig
<1>7. RecordsMean'
  BY <1>1, <1>6 DEF Sound, NoFault, RecordsMean, OldFiles
<1>8. Placed'
  BY <1>1, <1>2 DEF Sound, NoFault, Placed, Unfinished
<1>9. Matched'
  BY <1>1, <1>2, <1>6, OnTheWay DEF Sound, NoFault, Matched, Unfinished, Updating
<1>10. FilesMatch'
  BY <1>1, <1>6 DEF FilesMatch
<1>11. ~budget'.install => FALSE
  BY <1>1, <1>2, OnTheWay DEF Sound, NoFault, FirstOnly, Updating
<1> QED
  BY <1>7, <1>8, <1>9, <1>10, <1>11 DEF NoFault

LEMMA RolledBackKeeps ==
    ASSUME Sound, faults' = 0, UNCHANGED guardVars, Starting, RolledBack
    PROVE  NoFault'
<1>1. /\ UNCHANGED <<files, backups, bin, budget, edited>>
      /\ UNCHANGED <<exe, txn, guard, before>>
      /\ phase = "rollback" /\ phase' \in {"down", "load"} /\ todo = {} /\ tx' = 0
      /\ guard \in {"none", "watch"}
  BY Values DEF RolledBack, Goto, given, guardVars, Starting, Sound
<1>2. InProgress /\ TxRestored /\ tx # 0 /\ tx = state.backup /\ bin = 1 /\ exe = 1
  BY <1>1, Positions DEF Sound, NoFault, Placed, Matched, FilesMatch
<1>3. PICK b \in 1 .. Len(backups) : b = tx
  BY <1>1, Positions DEF Sound
<1>4. /\ backups[b].prev \in States /\ backups[b].prev.applied = 0
      /\ files = backups[b].files /\ OldConfig
  BY <1>1, <1>2, <1>3, BackupMeans DEF TxRestored, RestoredFrom
<1>5. state' = [backups[b].prev EXCEPT !.status = "failed", !.pkg = TRUE, !.backup = b]
  BY <1>3 DEF RolledBack, RecordFailure, Sound
<1>6. /\ state'.applied = 0 /\ state'.status = "failed" /\ state'.pkg /\ state'.backup = b
      /\ ~InProgress' /\ Whole'
  <2>1. state'.applied = 0 /\ state'.status = "failed" /\ state'.pkg /\ state'.backup = b
    BY <1>4, <1>5 DEF States
  <2> QED
    BY <1>1, <1>4, <2>1 DEF InProgress, Whole, OldConfig
<1>7. RecordsMean'
  BY <1>1, <1>6 DEF Sound, NoFault, RecordsMean, OldFiles
<1>8. Placed'
  BY <1>1, <1>2 DEF Sound, NoFault, Placed, Unfinished
<1>9. Matched'
  BY <1>1, <1>2, <1>6, OnTheWay DEF Sound, NoFault, Matched, Unfinished, Updating
<1>10. FilesMatch'
  BY <1>1, <1>6 DEF FilesMatch
<1>11. ASSUME ~budget'.install PROVE FirstOnly' /\ FilesFound'
  <2>1. FirstOnly /\ FilesFound /\ Updating /\ txn.package /\ state # FirstState
    BY <1>1, <1>2, <1>11, OnTheWay DEF Sound, NoFault
  <2>2. backups[b].files = before.files
    BY <1>2, <1>3, <2>1 DEF FilesFound
  <2>3. Updating' /\ state' # FirstState /\ FirstState' = FirstState
    BY <1>1, <1>6, <2>1 DEF Updating, Unfinished, FirstState
  <2>4. FirstOnly'
    BY <1>1, <1>3, <1>6, <2>1, <2>3 DEF FirstOnly
  <2>5. FilesFound'
    BY <1>1, <1>4, <1>6, <2>1, <2>2, <2>3 DEF FilesFound, KeptIn
  <2> QED
    BY <2>4, <2>5
<1> QED
  BY <1>7, <1>8, <1>9, <1>10, <1>11 DEF NoFault

\* A binary that was installed by hand and holds no package of its own.
LEMMA PackageFailsKeeps ==
    ASSUME Sound, faults' = 0, ServerHasNoPackage
    PROVE  NoFault'
<1>1. /\ UNCHANGED <<files, backups, bin, tx, budget, edited>>
      /\ UNCHANGED <<exe, txn, guard, before>>
      /\ phase = "upgrade" /\ phase' = "load" /\ state.applied < bin /\ guard = "none"
      /\ state' = [state EXCEPT !.status = "failed", !.pkg = FALSE, !.backup = 0]
  BY DEF ServerHasNoPackage, PackageFails, RecordFailure, Goto, given, guardVars, Sound
<1>2. bin = 1 /\ state.applied = 0 /\ exe = 1 /\ tx = 0 /\ ~Unfinished /\ ~Updating /\ OldConfig
  <2>1. bin \in {0, 1} /\ state.applied \in {0, 1}
    BY Values DEF Sound
  <2>2. bin = 1 /\ state.applied = 0
    BY <1>1, <2>1
  <2>3. exe = 1 /\ tx = 0 /\ ~Unfinished /\ ~Updating
    BY <1>1, <2>2 DEF Sound, NoFault, Placed, Matched, Updating
  <2> QED
    BY <1>1, <2>2, <2>3 DEF Sound, NoFault, FilesMatch, Whole
<1>3. state'.applied = 0 /\ state'.status = "failed" /\ ~InProgress' /\ Whole'
  <2>1. state \in States
    BY Positions DEF Sound
  <2>2. state'.applied = 0 /\ state'.status = "failed"
    BY <1>1, <1>2, <2>1 DEF States
  <2> QED
    BY <1>1, <1>2, <2>2 DEF InProgress, Whole, OldConfig
<1>4. RecordsMean'
  BY <1>1, <1>3 DEF Sound, NoFault, RecordsMean, OldFiles
<1>5. Placed'
  BY <1>1, <1>2 DEF Sound, NoFault, Placed, Unfinished
<1>6. Matched'
  BY <1>1, <1>2, <1>3 DEF Sound, NoFault, Matched, Unfinished, Updating
<1>7. FilesMatch'
  BY <1>1, <1>2, <1>3 DEF FilesMatch
<1>8. ~budget'.install => FALSE
  BY <1>1, <1>2 DEF Sound, NoFault, FirstOnly
<1> QED
  BY <1>4, <1>5, <1>6, <1>7, <1>8 DEF NoFault

-----------------------------------------------------------------------------
(* The upgrade is committed, the user edits, the guard puts files back.     *)

LEMMA CommitKeeps ==
    ASSUME Sound, ServerCommits
    PROVE  NoFault'
<1>1. /\ UNCHANGED <<files, backups, bin, budget>>
      /\ UNCHANGED <<exe, guard, before>>
      /\ phase = "commit" /\ phase' = "serve" /\ tx' = 0 /\ guard \in {"none", "watch"}
      /\ txn' = IF txn.status = "verified" THEN [txn EXCEPT !.status = "none"] ELSE txn
  BY DEF ServerCommits, Commit, Goto, given, Starting
<1>2. /\ txn'.package = txn.package /\ txn'.prev = txn.prev
      /\ txn'.status # "verified"
      /\ txn.status # "verified" => txn'.status = txn.status
      /\ txn.status = "verified" => txn'.status = "none"
  <2>1. txn \in Transactions
    BY Values DEF Sound
  <2> QED
    BY <1>1, <2>1 DEF Transactions
<1>3. (Unfinished' <=> Unfinished) /\ (Updating' <=> Updating)
  BY <1>1, <1>2 DEF Unfinished, Updating
<1>4. CASE tx = 0
  <2>1. UNCHANGED <<state, edited>>
    BY <1>4 DEF ServerCommits, Commit
  <2>2. ~InProgress /\ Whole
    BY <1>1, <1>4 DEF Sound, NoFault, Placed, FilesMatch
  <2>3. ~InProgress' /\ Whole' /\ RecordsMean'
    BY <1>1, <2>1, <2>2, DiskKept DEF Sound, NoFault
  <2>4. Placed'
    BY <1>1, <1>2, <1>3 DEF Sound, NoFault, Placed
  <2>5. Matched'
    BY <1>1, <1>2, <1>3, <2>1, <2>2, <2>3 DEF Sound, NoFault, Matched
  <2>6. FilesMatch'
    BY <1>1, <2>3 DEF FilesMatch
  <2>7. ASSUME ~budget'.install PROVE FirstOnly' /\ FilesFound'
    <3>1. FirstOnly /\ FilesFound
      BY <1>1, <2>7 DEF Sound, NoFault
    <3>2. FirstState' = FirstState
      BY DEF FirstState
    <3>3. FirstOnly'
      BY <1>1, <1>2, <1>3, <2>1, <3>1, <3>2 DEF FirstOnly
    <3>4. FilesFound'
      BY <1>1, <1>2, <1>3, <1>4, <2>1, <3>1, <3>2 DEF FilesFound, KeptIn
    <3> QED
      BY <3>3, <3>4
  <2> QED
    BY <2>3, <2>4, <2>5, <2>6, <2>7 DEF NoFault
<1>5. CASE tx # 0
  <2>1. state' = [status |-> "success", applied |-> bin, pkg |-> TRUE, backup |-> tx] /\ edited' = {}
    BY <1>5 DEF ServerCommits, Commit
  <2>2. InProgress /\ tx = state.backup /\ bin = 1 /\ exe = 1 /\ NewConfig
    BY <1>1, <1>5 DEF Sound, NoFault, Placed, Matched, FilesMatch
  <2>3. state'.applied = 1 /\ state'.status = "success" /\ state'.pkg /\ state'.backup = tx
    BY <2>1, <2>2
  <2>4. ~InProgress' /\ Whole'
    BY <1>1, <2>2, <2>3 DEF InProgress, Whole, NewConfig
  <2>5. RecordsMean'
    BY <1>1, <1>5, <2>3, <2>4 DEF Sound, NoFault, RecordsMean, OldFiles
  <2>6. Placed'
    BY <1>1, <1>2, <1>3 DEF Sound, NoFault, Placed
  <2>7. Matched'
    BY <1>1, <1>2, <1>3, <2>2, <2>3, OnTheWay DEF Sound, NoFault, Matched
  <2>8. FilesMatch'
    BY <1>1, <2>4 DEF FilesMatch
  <2>9. ASSUME ~budget'.install PROVE FirstOnly' /\ FilesFound'
    <3>1. FirstOnly /\ FilesFound /\ Updating /\ txn.package /\ state # FirstState
      BY <1>1, <2>2, <2>9, OnTheWay DEF Sound, NoFault
    <3>2. FirstState' = FirstState /\ state' # FirstState
      BY <2>3 DEF FirstState
    <3>3. FirstOnly'
      BY <1>1, <1>2, <1>3, <1>5, <2>3, <3>1, <3>2 DEF FirstOnly
    <3>4. FilesFound'
      BY <1>1, <1>2, <1>3, <2>1, <2>2, <2>3, <3>1, <3>2 DEF FilesFound, KeptIn
    <3> QED
      BY <3>3, <3>4
  <2> QED
    BY <2>5, <2>6, <2>7, <2>8, <2>9 DEF NoFault
<1> QED
  BY <1>4, <1>5

LEMMA EditKeeps ==
    ASSUME Sound, UserEdits
    PROVE  NoFault'
<1>1. PICK f \in Managed :
         /\ edited' = edited \cup {f}
         /\ files' = [files EXCEPT ![f] = IF @ \in {"user", "edited"} THEN "edited"
                                          ELSE "package_edited"]
  BY DEF UserEdits, Edit
<1>2. /\ UNCHANGED <<state, backups, phase, bin, tx, todo, budget>>
      /\ UNCHANGED <<exe, txn, guard, updates>>
      /\ phase = "serve" /\ guard = "none" /\ before' = [before EXCEPT !.files = files']
  BY DEF UserEdits, Edit, procVars, given
<1>3. files \in Contents
  BY Positions DEF Sound
<1>4. /\ files[f] \in {"user", "edited"} => files'[f] = "edited"
      /\ files[f] \notin {"user", "edited"} => files'[f] = "package_edited"
      /\ \A g \in Files : g # f => files'[g] = files[g]
  BY <1>1, <1>3 DEF Contents, Files
<1>5. ~Unfinished /\ ~Updating /\ ~InProgress /\ Whole
  BY <1>2 DEF Sound, NoFault, Placed, FilesMatch, Updating
<1>6. Whole'
  <2>1. OldConfig => OldConfig'
    BY <1>4, FilesDisjoint DEF OldConfig, Files
  <2>2. NewConfig => NewConfig'
    BY <1>4, FilesDisjoint DEF NewConfig, Files
  <2> QED
    BY <1>2, <1>5, <2>1, <2>2 DEF Whole
<1>7. RecordsMean' /\ ~InProgress'
  BY <1>2, <1>5, RecordsKept DEF Sound, NoFault
<1>8. Placed'
  BY <1>2, <1>5 DEF Sound, NoFault, Placed, Unfinished, InProgress
<1>9. Matched'
  BY <1>2, <1>5, <1>7 DEF Sound, NoFault, Matched, Unfinished, Updating
<1>10. FilesMatch'
  BY <1>2, <1>6, <1>7 DEF FilesMatch
<1>11. ASSUME ~budget'.install PROVE FirstOnly' /\ FilesFound'
  <2>1. FirstOnly /\ FilesFound
    BY <1>2, <1>11 DEF Sound, NoFault
  <2>2. ~Updating' /\ FirstState' = FirstState
    BY <1>2, <1>5 DEF Updating, Unfinished, FirstState
  <2>3. FirstOnly'
    BY <1>2, <1>5, <2>1, <2>2 DEF FirstOnly
  <2>4. before'.files = files' /\ before'.applied = before.applied
    BY <1>2, Values DEF Sound
  <2>5. KeptIn(files)'
    <3>1. \A g \in edited : g \in Managed /\ files[g] \in {"edited", "package_edited"}
      BY <1>5, <2>1 DEF FilesFound, KeptIn, Sound, Typed, TypeOK, CUTypeOK
    <3> QED
      BY <1>1, <1>4, <3>1 DEF KeptIn, Files
  <2>6. FilesFound'
    BY <1>2, <1>5, <2>1, <2>2, <2>4, <2>5 DEF FilesFound
  <2> QED
    BY <2>3, <2>6
<1> QED
  BY <1>7, <1>8, <1>9, <1>10, <1>11 DEF NoFault

LEMMA UndoFileKeeps ==
    ASSUME Sound, UndoFile
    PROVE  NoFault'
<1>1. /\ UNCHANGED <<state, backups, phase, bin, tx, budget, edited>>
      /\ UNCHANGED <<exe, txn, guard, before>>
      /\ guard = "undo_files" /\ RestoreOne(state.backup)
  BY DEF UndoFile, envVars, given, guardVars
<1>2. /\ RecordRestored /\ Unfinished /\ txn.package /\ phase = "down"
      /\ state # FirstState
  <2>1. RecordRestored /\ Unfinished /\ NeedsRestore /\ phase = "down"
    BY <1>1, Positions DEF Sound, NoFault, Placed, FilesMatch
  <2> QED
    BY <2>1 DEF NeedsRestore, FirstState
<1>3. RecordRestored'
  <2>1. PICK b \in 1 .. Len(backups) : b = state.backup
    BY <1>1, Positions DEF Sound
  <2>2. RestoreOne(b) /\ RestoredFrom(b)
    BY <1>1, <1>2, <2>1 DEF RecordRestored, RestoreOne, RestoredFrom
  <2>3. RestoredFrom(b)'
    BY <1>1, <2>2, RestoreOneTyped DEF Sound, Typed
  <2> QED
    BY <1>1, <2>1, <2>3 DEF RecordRestored, RestoredFrom
<1>4. RecordsMean' /\ Placed' /\ Matched'
  BY <1>1, RecordsKept
  DEF Sound, NoFault, Placed, Matched, Unfinished, Updating, NeedsRestore, InProgress
<1>5. FilesMatch'
  BY <1>1, <1>2, <1>3 DEF FilesMatch
<1>6. ASSUME ~budget'.install PROVE FirstOnly' /\ FilesFound'
  <2>1. FirstOnly /\ FilesFound /\ Updating
    BY <1>1, <1>2, <1>6 DEF Sound, NoFault, Updating
  <2>2. FirstState' = FirstState /\ Updating'
    BY <1>1, <2>1 DEF FirstState, Updating, Unfinished
  <2>3. FirstOnly'
    BY <1>1, <2>1, <2>2 DEF FirstOnly
  <2>4. FilesFound'
    BY <1>1, <1>2, <2>1, <2>2 DEF FilesFound, KeptIn
  <2> QED
    BY <2>3, <2>4
<1> QED
  BY <1>4, <1>5, <1>6 DEF NoFault

LEMMA UndoRecordKeeps ==
    ASSUME Sound, UndoRecord
    PROVE  NoFault'
<1>1. /\ UNCHANGED <<files, backups, phase, bin, tx, budget, edited>>
      /\ UNCHANGED <<exe, txn, before>>
      /\ guard = "undo_files" /\ guard' = "undo_binary" /\ todo = {}
      /\ state' = backups[state.backup].prev
  BY DEF UndoRecord, envVars, given, procVars
<1>2. RecordRestored /\ Unfinished /\ txn.package /\ phase = "down" /\ tx = 0 /\ state # FirstState
  <2>1. RecordRestored /\ Unfinished /\ NeedsRestore /\ phase = "down"
    BY <1>1, Positions DEF Sound, NoFault, Placed, FilesMatch
  <2> QED
    BY <2>1 DEF Sound, NoFault, Placed, NeedsRestore, FirstState
<1>3. PICK b \in 1 .. Len(backups) : b = state.backup
  BY <1>1, Positions DEF Sound
<1>4. /\ state' = backups[b].prev /\ state'.applied = 0 /\ state'.status # "in_progress"
      /\ files = backups[b].files /\ OldConfig
  BY <1>1, <1>2, <1>3, BackupMeans DEF RecordRestored, RestoredFrom
<1>5. ~InProgress' /\ Whole'
  BY <1>1, <1>4 DEF InProgress, Whole, OldConfig
<1>6. RecordsMean'
  BY <1>1, <1>4, <1>5 DEF Sound, NoFault, RecordsMean, OldFiles
<1>7. Unfinished' /\ Updating' /\ Updating
  BY <1>1, <1>2 DEF Unfinished, Updating
<1>8. Placed'
  BY <1>1, <1>2, <1>7 DEF Sound, NoFault, Placed, Unfinished
<1>9. Matched'
  BY <1>1, <1>2, <1>4, <1>7 DEF Sound, NoFault, Matched, Placed, Unfinished
<1>10. FilesMatch'
  BY <1>1, <1>2, <1>5 DEF FilesMatch
<1>11. ASSUME ~budget'.install PROVE FirstOnly' /\ FilesFound'
  <2>1. FirstOnly /\ FilesFound
    BY <1>1, <1>11 DEF Sound, NoFault
  <2>2. state' = FirstState /\ FirstState' = FirstState
    BY <1>3, <1>4, <2>1 DEF FirstOnly, FirstState
  <2>3. files = before.files /\ FirstState.applied = 0
    BY <1>2, <1>3, <1>4, <1>7, <2>1 DEF FilesFound, FirstState
  <2>4. FirstOnly'
    BY <1>1, <1>2, <1>7, <2>1, <2>2 DEF FirstOnly
  <2>5. FilesFound'
    BY <1>1, <1>2, <1>7, <2>1, <2>2, <2>3 DEF FilesFound, KeptIn
  <2> QED
    BY <2>4, <2>5
<1> QED
  BY <1>6, <1>8, <1>9, <1>10, <1>11 DEF NoFault

-----------------------------------------------------------------------------
(* The invariant.                                                           *)

\* A write that has failed is never forgotten.
LEMMA FaultsCount ==
    ASSUME Typed, [Next]_vars
    PROVE  faults' \in Nat /\ faults' >= faults
<1>1. faults \in Nat
  BY Values
<1>2. faults' \in {faults, faults + 0, faults + 1, faults + 0 + 1, faults + 1 + 1}
  <2>1. CASE UNCHANGED vars
    BY <2>1 DEF vars, cuVars, envVars
  <2>2. CASE StartServer \/ ServerStops \/ InstallByHand \/ CrashAll \/ Update \/ UserEdits
    BY <2>2 DEF StartServer, ServerStops, InstallByHand, CrashAll, Update, UserEdits,
                StartAs, Stop, Edit, envVars, cuVars
  <2>3. CASE ServerCommits
    BY <2>3 DEF ServerCommits, Commit
  <2>4. CASE \/ WriteInstalling \/ InstallCandidate \/ WriteTesting \/ StartCandidate
             \/ CandidatePasses \/ CandidateFails \/ WriteVerified \/ SaveInstalled
             \/ GuardStepFails
    BY <2>4 DEF WriteInstalling, InstallCandidate, WriteTesting, StartCandidate, CandidatePasses,
                CandidateFails, WriteVerified, SaveInstalled, GuardStepFails, Fault, envVars
  <2>5. CASE \/ RecoverAbandoned \/ UndoFile \/ UndoRecord \/ UndoConfigFails \/ UndoBinary
             \/ WriteRolledBack
    BY <2>5 DEF RecoverAbandoned, UndoFile, UndoRecord, UndoConfigFails, UndoBinary,
                WriteRolledBack, Fault, envVars
  <2>6. CASE RequiresNothing \/ CheckRecord \/ UpToDate \/ Validate \/ LoadSucceeds \/ LoadFails
    BY <2>6 DEF RequiresNothing, CheckRecord, UpToDate, Validate, LoadSucceeds, LoadFails, envVars
  <2>7. CASE RepairFile \/ ApplyFile \/ RollbackFile \/ Begin
    BY <2>7 DEF RepairFile, ApplyFile, RollbackFile, Begin, envVars
  <2>8. CASE RepairFails \/ ApplyFails \/ RollbackFails \/ CommitFails
    BY <2>8 DEF RepairFails, ApplyFails, RollbackFails, CommitFails, Fault
  <2>9. CASE Repaired \/ RolledBack \/ PackageFails \/ BeginFails
    BY <2>9 DEF Repaired, RolledBack, PackageFails, BeginFails, RecordFailure
  <2> QED
    BY <2>1, <2>2, <2>3, <2>4, <2>5, <2>6, <2>7, <2>8, <2>9
    DEF Next, ServerStep, GuardStep, ServerUpgrades, ServerHasNoPackage, UpgradeStep
<1> QED
  BY <1>1, <1>2

LEMMA FaultsGrow ==
    ASSUME Typed, [Next]_vars, faults' = 0
    PROVE  faults = 0
<1>1. faults \in Nat
  BY Values
<1> QED
  BY <1>1, FaultsCount

\* A write that fails is counted.
LEMMA FailuresCount ==
    ASSUME faults = 0, faults' = 0
    PROVE  /\ ~RepairFails /\ ~ApplyFails /\ ~RollbackFails /\ ~CommitFails /\ ~BeginFails
           /\ ~GuardStepFails /\ ~UndoConfigFails
BY DEF RepairFails, ApplyFails, RollbackFails, CommitFails, BeginFails, RecordFailure,
       GuardStepFails, UndoConfigFails, Fault

LEMMA StutterKeeps ==
    ASSUME NoFault, UNCHANGED vars
    PROVE  NoFault'
<1>1. /\ UNCHANGED <<files, state, backups, phase, bin, tx, todo, budget, edited>>
      /\ UNCHANGED <<exe, txn, guard, before>>
  BY DEF vars, cuVars, diskVars, procVars, envVars, given, guardVars
<1>2. RecordsMean' /\ Placed' /\ Matched'
  BY <1>1, RecordsKept
  DEF NoFault, Placed, Matched, Unfinished, Updating, NeedsRestore, InProgress
<1>3. FilesMatch'
  BY <1>1, DiskKept, LoopKept DEF NoFault, FilesMatch, Unfinished, NeedsRestore
<1>4. (Updating' <=> Updating) /\ FirstState' = FirstState
  BY <1>1 DEF Updating, Unfinished, FirstState
<1>5. FirstOnly => FirstOnly'
  BY <1>1, <1>4 DEF FirstOnly
<1>6. FilesFound => FilesFound'
  BY <1>1, <1>4 DEF FilesFound, KeptIn
<1> QED
  BY <1>1, <1>2, <1>3, <1>5, <1>6 DEF NoFault

LEMMA InitSound == Init => NoFault
<1> SUFFICES ASSUME Init PROVE NoFault
  OBVIOUS
<1>1. Len(backups) = 0 /\ ~InProgress /\ state = FirstState /\ state.applied = 0
  BY DEF Init, CUInit, InProgress, FirstState
<1>2. OldConfig
  BY FilesDisjoint DEF Init, CUInit, OldConfig, Files
<1>3. /\ guard = "none" /\ phase = "down" /\ tx = 0 /\ exe = 0 /\ bin = 0 /\ edited = {}
      /\ txn.status = "none" /\ ~Updating /\ ~Unfinished
  BY DEF Init, CUInit, Updating, Unfinished
<1>4. RecordsMean
  BY <1>1 DEF RecordsMean
<1>5. Placed /\ Matched
  BY <1>1, <1>3 DEF Placed, Matched
<1>6. FilesMatch
  BY <1>1, <1>2, <1>3 DEF FilesMatch, Whole
<1>7. FirstOnly
  BY <1>1, <1>3 DEF FirstOnly
<1>8. FilesFound
  BY <1>3 DEF FilesFound, KeptIn
<1> QED
  BY <1>4, <1>5, <1>6, <1>7, <1>8 DEF NoFault

LEMMA NoFaultInductive ==
    ASSUME Sound, [Next]_vars, faults' = 0
    PROVE  NoFault'
<1>1. CASE UNCHANGED vars
  BY <1>1, StutterKeeps DEF Sound
<1>2. CASE ServerUpgrades
  <2>1. Starting /\ UpgradeStep /\ UNCHANGED guardVars /\ faults = 0
    BY <1>2 DEF ServerUpgrades, Sound
  <2> QED
    BY <2>1, FailuresCount, StartMovesKeep, FilesKeep, BeginKeeps, RepairedKeeps, RolledBackKeeps
    DEF UpgradeStep
<1>3. CASE ServerHasNoPackage
  BY <1>3, PackageFailsKeeps
<1>4. CASE ServerCommits
  BY <1>4, CommitKeeps
<1>5. CASE GuardStep
  <2>1. ~GuardStepFails /\ ~UndoConfigFails
    BY FailuresCount DEF Sound
  <2> QED
    BY <1>5, <2>1, GuardMovesKeep, UndoMovesKeep, UndoFileKeeps, UndoRecordKeeps DEF GuardStep
<1>6. CASE RecoverAbandoned \/ CandidateFails
  BY <1>6, UndoMovesKeep
<1>7. CASE StartServer \/ Update \/ InstallByHand \/ ServerStops \/ CrashAll
  BY <1>7, ServerMovesKeep
<1>8. CASE UserEdits
  BY <1>8, EditKeeps
<1> QED
  BY <1>1, <1>2, <1>3, <1>4, <1>5, <1>6, <1>7, <1>8 DEF Next, ServerStep

\* The first update ends what BeforeUpdates says.
LEMMA UpdatesAsked ==
    ASSUME Sound, BeforeUpdates, [Next]_vars, updates' = 0
    PROVE  /\ updates = 0 /\ guard = "none" /\ txn.status = "none"
           /\ UNCHANGED vars \/ StartServer \/ ServerStep \/ InstallByHand \/ ServerStops
              \/ UserEdits \/ CrashAll
<1>1. updates \in Nat
  BY DEF Sound, Typed, TypeOK
<1>2. CASE Update
  <2>1. updates' = updates + 1
    BY <1>2 DEF Update
  <2> QED
    BY <1>1, <2>1
<1>3. CASE GuardStep
  <2>1. guard # "none" /\ UNCHANGED updates
    BY <1>3 DEF GuardStep, WriteInstalling, InstallCandidate, WriteTesting, StartCandidate,
           CandidatePasses, WriteVerified, SaveInstalled, GuardStepFails, UndoFile, UndoRecord,
           UndoConfigFails, UndoBinary, WriteRolledBack, GuardWrites, guardVars
  <2> QED
    BY <2>1 DEF BeforeUpdates
<1>4. CASE RecoverAbandoned \/ CandidateFails
  BY <1>4 DEF RecoverAbandoned, CandidateFails, BeforeUpdates, Unfinished
<1>5. CASE UNCHANGED vars
  BY <1>5 DEF vars, guardVars, BeforeUpdates
<1>6. CASE StartServer \/ InstallByHand \/ ServerStops \/ UserEdits \/ CrashAll
  BY <1>6 DEF StartServer, InstallByHand, ServerStops, UserEdits, CrashAll, guardVars, BeforeUpdates
<1>7. CASE ServerStep
  BY <1>7 DEF ServerStep, ServerUpgrades, ServerHasNoPackage, ServerCommits, guardVars, BeforeUpdates
<1> QED
  BY <1>2, <1>3, <1>4, <1>5, <1>6, <1>7 DEF Next

\* The steps of a start that write no file and no record.
LEMMA MovesLeaveDisk ==
    ASSUME RequiresNothing \/ CheckRecord \/ UpToDate \/ Validate \/ LoadSucceeds \/ LoadFails
    PROVE  UNCHANGED <<files, state, backups, edited>>
BY DEF RequiresNothing, CheckRecord, UpToDate, Validate, LoadSucceeds, LoadFails, diskVars, envVars

LEMMA BeforeUpdatesInductive ==
    ASSUME Sound, BeforeUpdates, [Next]_vars, faults' = 0
    PROVE  BeforeUpdates'
<1> SUFFICES ASSUME updates' = 0 PROVE BeforeUpdates'
  BY DEF BeforeUpdates
<1>1. /\ guard = "none" /\ txn.status = "none"
      /\ IF InProgress THEN KeptIn(backups[state.backup].files) ELSE KeptIn(files)
  BY UpdatesAsked DEF BeforeUpdates
<1>2. ASSUME UNCHANGED <<files, state, backups, edited, guard, txn>> PROVE BeforeUpdates'
  BY <1>1, <1>2 DEF BeforeUpdates, KeptIn, InProgress
<1>3. CASE UNCHANGED vars
  BY <1>2, <1>3 DEF vars, cuVars, diskVars, envVars, guardVars
<1>4. CASE StartServer \/ InstallByHand \/ ServerStops
  BY <1>2, <1>4 DEF StartServer, InstallByHand, ServerStops, StartAs, Stop, cuVars, diskVars,
         envVars, guardVars
<1>5. CASE CrashAll
  <2>1. UNCHANGED <<files, state, backups, edited, txn>> /\ guard' = "none"
    BY <1>5 DEF CrashAll, diskVars
  <2> QED
    BY <1>1, <1>2, <2>1
<1>6. CASE UserEdits
  <2>1. PICK f \in Managed :
           /\ edited' = edited \cup {f}
           /\ files' = [files EXCEPT ![f] = IF @ \in {"user", "edited"} THEN "edited"
                                            ELSE "package_edited"]
    BY <1>6 DEF UserEdits, Edit
  <2>2. UNCHANGED <<state, backups, guard, txn>> /\ phase = "serve"
    BY <1>6 DEF UserEdits, Edit
  <2>3. KeptIn(files) /\ ~InProgress'
    BY <1>1, <2>2 DEF Sound, NoFault, FilesMatch, InProgress
  <2>4. files \in Contents /\ edited \subseteq Managed
    BY DEF Sound, Typed, TypeOK, CUTypeOK
  <2>5. KeptIn(files)'
    BY <2>1, <2>3, <2>4 DEF KeptIn, Contents, Files
  <2> QED
    BY <1>1, <2>2, <2>3, <2>5 DEF BeforeUpdates, KeptIn
<1>7. CASE ServerCommits
  <2>1. /\ UNCHANGED <<files, backups, guard>> /\ phase = "commit" /\ txn' = txn
        /\ \/ tx = 0 /\ UNCHANGED <<state, edited>>
           \/ tx # 0 /\ edited' = {}
    BY <1>1, <1>7 DEF ServerCommits, Commit
  <2>2. ASSUME tx = 0, UNCHANGED <<state, edited>> PROVE BeforeUpdates'
    BY <1>2, <2>1, <2>2
  <2>3. ASSUME edited' = {} PROVE BeforeUpdates'
    BY <1>1, <2>1, <2>3 DEF BeforeUpdates, KeptIn
  <2> QED
    BY <2>1, <2>2, <2>3
<1>8. CASE ServerUpgrades \/ ServerHasNoPackage
  <2>1. UNCHANGED <<guard, txn>>
    BY <1>8 DEF ServerUpgrades, ServerHasNoPackage, guardVars
  <2>2. faults = 0
    BY DEF Sound
  <2>3. CASE RequiresNothing \/ CheckRecord \/ UpToDate \/ Validate \/ LoadSucceeds \/ LoadFails
    BY <1>2, <2>1, <2>3, MovesLeaveDisk
  <2>4. CASE RepairFile \/ ApplyFile \/ RollbackFile
    <3>1. UNCHANGED <<state, backups, edited>> /\ phase \in {"repair", "apply", "rollback"}
      BY <2>4 DEF RepairFile, ApplyFile, RollbackFile, envVars
    <3>2. InProgress
      BY <3>1, Positions DEF Sound, NoFault, Placed, FilesMatch
    <3> QED
      BY <1>1, <2>1, <3>1, <3>2 DEF BeforeUpdates, KeptIn, InProgress
  <2>5. CASE Begin
    <3>1. ~InProgress
      BY <2>5 DEF Begin, Sound, NoFault, FilesMatch
    <3>2. /\ backups' = Append(backups, [files |-> files, prev |-> state])
          /\ state' = [state EXCEPT !.status = "in_progress", !.pkg = TRUE,
                                    !.backup = Len(backups) + 1]
          /\ UNCHANGED edited
      BY <2>5 DEF Begin, envVars
    <3>3. backups'[Len(backups) + 1] = [files |-> files, prev |-> state]
      <4>1. backups \in Seq(Backup) /\ [files |-> files, prev |-> state] \in Backup
        BY Positions DEF Sound, Backup
      <4> QED
        BY <3>2, <4>1, BackupAdded
    <3>4. state'.status = "in_progress" /\ backups'[state'.backup].files = files
      <4>1. state'.status = "in_progress" /\ state'.backup = Len(backups) + 1
        <5>1. state \in States
          BY Positions DEF Sound
        <5> QED
          BY <3>2, <5>1 DEF States
      <4> QED
        BY <3>3, <4>1
    <3> QED
      BY <1>1, <2>1, <3>1, <3>2, <3>4 DEF BeforeUpdates, KeptIn, InProgress
  <2>6. CASE Repaired
    <3>1. Starting /\ UNCHANGED guardVars
      BY <1>8 DEF ServerUpgrades, ServerHasNoPackage, Starting
    <3>2. /\ UNCHANGED <<files, backups, edited>> /\ phase = "repair" /\ phase' = "upgrade"
          /\ todo = {}
      BY <2>6 DEF Repaired, Goto
    <3>3. InProgress /\ RecordRestored
      BY <3>2 DEF Sound, NoFault, FilesMatch
    <3>4. PICK b \in 1 .. Len(backups) : b = state.backup
      BY <3>2, Positions DEF Sound
    <3>5. files = backups[state.backup].files
      BY <3>2, <3>3, <3>4, BackupMeans DEF RecordRestored, RestoredFrom
    <3>6. ~InProgress'
      BY <2>6, <3>1, <3>2, RepairedKeeps DEF NoFault, FilesMatch
    <3> QED
      BY <1>1, <2>1, <3>2, <3>3, <3>5, <3>6 DEF BeforeUpdates, KeptIn
  <2>7. CASE RolledBack
    <3>1. /\ UNCHANGED <<files, backups, edited>> /\ phase = "rollback" /\ todo = {}
      BY <2>7 DEF RolledBack
    <3>2. InProgress /\ TxRestored /\ tx = state.backup
      BY <3>1, Positions DEF Sound, NoFault, Placed, FilesMatch
    <3>3. PICK b \in 1 .. Len(backups) : b = tx
      BY <3>1, Positions DEF Sound
    <3>4. files = backups[state.backup].files
      BY <3>1, <3>2, <3>3, BackupMeans DEF TxRestored, RestoredFrom
    <3>5. KeptIn(files)
      BY <1>1, <3>2, <3>4
    <3>6. state'.status = "failed"
      <4>1. state' = [backups[tx].prev EXCEPT !.status = "failed", !.pkg = TRUE, !.backup = tx]
        BY <2>7 DEF RolledBack, RecordFailure, Sound
      <4>2. backups[tx].prev \in States
        BY <3>3, BackupMeans
      <4> QED
        BY <4>1, <4>2 DEF States
    <3> QED
      BY <1>1, <2>1, <3>1, <3>5, <3>6 DEF BeforeUpdates, KeptIn, InProgress
  <2>8. CASE PackageFails
    <3>1. /\ UNCHANGED <<files, backups, edited>> /\ phase = "upgrade"
          /\ state' = [state EXCEPT !.status = "failed", !.pkg = FALSE, !.backup = 0]
      BY <2>8 DEF PackageFails, RecordFailure, Sound
    <3>2. ~InProgress /\ state \in States
      BY <3>1, Positions DEF Sound, NoFault, FilesMatch
    <3>3. state'.status = "failed"
      BY <3>1, <3>2 DEF States
    <3> QED
      BY <1>1, <2>1, <3>1, <3>2, <3>3 DEF BeforeUpdates, KeptIn, InProgress
  <2> QED
    BY <1>8, <2>2, <2>3, <2>4, <2>5, <2>6, <2>7, <2>8, FailuresCount
    DEF ServerUpgrades, ServerHasNoPackage, UpgradeStep
<1> QED
  BY <1>3, <1>4, <1>5, <1>6, <1>7, <1>8, UpdatesAsked DEF ServerStep

LEMMA InitBefore == Init => BeforeUpdates
BY DEF Init, CUInit, BeforeUpdates, InProgress, FirstState, KeptIn

LEMMA IInvInductive ==
    /\ Init => IInv
    /\ IInv /\ [Next]_vars => IInv'
<1>1. Init => IInv
  BY InitTyped, InitSound, InitBefore DEF IInv, Typed
<1>2. ASSUME IInv, [Next]_vars PROVE IInv'
  <2>1. Typed'
    BY <1>2, TypedInductive DEF IInv, Typed
  <2>2. ASSUME faults' = 0 PROVE NoFault' /\ BeforeUpdates'
    <3>1. faults = 0
      BY <1>2, <2>2, FaultsGrow DEF IInv, Typed
    <3>2. Sound
      BY <1>2, <3>1 DEF Sound, IInv, Typed
    <3> QED
      BY <1>2, <2>2, <3>1, <3>2, NoFaultInductive, BeforeUpdatesInductive DEF IInv
  <2> QED
    BY <2>1, <2>2 DEF IInv, Typed
<1> QED
  BY <1>1, <1>2

\* The inductive invariant holds in every behaviour; what is proved below
\* follows from its parts.
THEOREM InvariantCorrect == Spec => []IInv
BY IInvInductive, PTL DEF Spec

-----------------------------------------------------------------------------
(* Some write has failed.                                                   *)

Undoing == {"undo_files", "undo_binary", "undo_txn"}
Verified == txn.status = "verified"

\* What an upgrade has made of the disk, however many writes fail: the record
\* says that it goes on until it is committed, over the new configuration.
Grounded ==
    /\ tx # 0 => phase \in {"apply", "rollback", "load", "commit"} /\ InProgress /\ bin = 1
    /\ phase = "repair" => InProgress
    /\ InProgress => state.applied = 0
    /\ \A i \in 1 .. Len(backups) : backups[i].prev.applied = 0
    /\ phase = "apply" => AppliedSoFar
    /\ phase \in {"load", "commit"} /\ tx # 0 => NewConfig

\* What has been written of the transaction by then.  Only a failed write makes
\* the guard undo an update it has verified.
Written ==
    /\ updates = 0 => guard = "none" /\ txn.status = "none"
    /\ guard = "staged" => txn.status = "staged"
    /\ guard \in {"install", "installed", "start", "watch", "passed"} => Unfinished
    /\ guard = "save" => Verified
    /\ guard \in Undoing => Unfinished \/ (Verified /\ faults > 0)
    /\ guard \in {"installed", "start", "watch", "passed", "save"} => exe = 1
    /\ guard \in {"passed", "save"} => state.applied = 1

\* The only update, without a crash and with at most one failed write: where the
\* schema is applied the configuration is whole, unless it is being undone.
OneFault ==
    crashes = 0 /\ faults <= 1 /\ updates <= 1 =>
        /\ guard = "none" /\ Verified => exe = 1 /\ state.applied = 1
        /\ \/ state.applied = 1 => NewConfig
           \/ guard \in Undoing
           \/ guard = "none" /\ (Unfinished \/ txn.status = "rolled_back")

\* One process at a time.
LEMMA Alone ==
    ASSUME Typed, Grounded
    PROVE  /\ guard \notin {"none", "watch"} => phase = "down"
           /\ phase \in {"down", "prepare", "repair", "upgrade", "serve"} => tx = 0
           /\ state.applied \in {0, 1} /\ bin \in {0, 1} /\ tx \in Nat /\ Len(backups) \in Nat
<1>1. tx \in 0 .. Len(backups) /\ Len(backups) \in Nat
  BY Positions
<1>2. tx \in Nat
  BY <1>1
<1> QED
  BY <1>1, <1>2, Values DEF Typed, BackupsHeld, Grounded

\* The steps of a start that write nothing of the disk.
LEMMA MovesGround ==
    ASSUME Typed, Grounded,
           \/ RequiresNothing \/ CheckRecord \/ RepairFails \/ UpToDate \/ ApplyFails \/ Validate
           \/ RollbackFails \/ LoadSucceeds \/ LoadFails \/ CommitFails
    PROVE  Grounded' /\ UNCHANGED <<files, state, backups, crashes>>
<1>1. UNCHANGED <<files, state, backups, tx, bin, crashes>>
  BY DEF RequiresNothing, CheckRecord, RepairFails, UpToDate, ApplyFails, Validate,
         RollbackFails, LoadSucceeds, LoadFails, CommitFails, diskVars, envVars
<1>2. /\ InProgress' = InProgress /\ NewConfig' = NewConfig
      /\ phase' # "apply"
  <2>1. phase' # "apply"
    BY DEF RequiresNothing, CheckRecord, RepairFails, UpToDate, ApplyFails, Validate, Phases,
           RollbackFails, LoadSucceeds, LoadFails, CommitFails, Goto, Rollback, Typed, TypeOK, CUTypeOK
  <2> QED
    BY <1>1, <2>1, DiskKept
<1>3. tx # 0 => phase' \in {"apply", "rollback", "load", "commit"}
  BY Alone DEF RequiresNothing, CheckRecord, RepairFails, UpToDate, ApplyFails, Validate,
           RollbackFails, LoadSucceeds, LoadFails, CommitFails, Goto, Rollback
<1>4. phase' = "repair" => InProgress
  BY DEF RequiresNothing, CheckRecord, RepairFails, UpToDate, ApplyFails, Validate, Interrupted,
         RollbackFails, LoadSucceeds, LoadFails, CommitFails, Goto, Rollback, InProgress
<1>5. phase' \in {"load", "commit"} /\ tx # 0 => NewConfig
  BY Alone, AllApplied
  DEF RequiresNothing, CheckRecord, RepairFails, UpToDate, ApplyFails, Validate, Grounded,
      RollbackFails, LoadSucceeds, LoadFails, CommitFails, Goto, Rollback
<1> QED
  BY <1>1, <1>2, <1>3, <1>4, <1>5 DEF Grounded

\* A record of a failure.
LEMMA FailuresGround ==
    ASSUME Typed, Grounded, Repaired \/ BeginFails \/ PackageFails \/ RolledBack
    PROVE  Grounded' /\ UNCHANGED <<files, backups, crashes>> /\ state.applied = 0 /\ state'.applied = 0
<1>1. UNCHANGED <<files, backups, bin, crashes>>
  BY DEF Repaired, BeginFails, PackageFails, RolledBack
<1>2. tx' = 0 /\ phase' \in {"upgrade", "load", "down"}
  <2>1. onward \in {"down", "load"}
    BY DEF Typed, TypeOK, CUTypeOK
  <2> QED
    BY <2>1, Alone DEF Repaired, BeginFails, PackageFails, RolledBack, Goto
<1>3. state.applied = 0
  <2>1. CASE Repaired \/ RolledBack
    BY <2>1 DEF Repaired, RolledBack, Grounded, Typed, BackupsHeld
  <2>2. CASE BeginFails \/ PackageFails
    <3>1. state.applied < bin
      BY <2>2 DEF BeginFails, PackageFails
    <3> QED
      BY <3>1, Alone
  <2> QED
    BY <2>1, <2>2
<1>4. state' = state \/ (state'.applied = 0 /\ state'.status # "in_progress")
  <2>1. CASE Repaired
    <3>1. PICK b \in 1 .. Len(backups) : b = state.backup
      BY <2>1, Positions DEF Repaired
    <3>2. backups[b].prev \in States /\ backups[b].prev.applied = 0
      BY <3>1, BackupTyped DEF Typed, Grounded
    <3> QED
      BY <2>1, <3>1, <3>2 DEF Repaired, RecordFailure, States
  <2>2. CASE RolledBack
    <3>1. PICK b \in 1 .. Len(backups) : b = tx
      BY <2>2, Positions DEF RolledBack
    <3>2. backups[b].prev \in States /\ backups[b].prev.applied = 0
      BY <3>1, BackupTyped DEF Typed, Grounded
    <3> QED
      BY <2>2, <3>1, <3>2 DEF RolledBack, RecordFailure, States
  <2>3. CASE BeginFails \/ PackageFails
    BY <1>3, <2>3, Positions DEF BeginFails, PackageFails, RecordFailure, States
  <2> QED
    BY <2>1, <2>2, <2>3
<1> QED
  BY <1>1, <1>2, <1>3, <1>4 DEF Grounded, InProgress

LEMMA BeginGround ==
    ASSUME Typed, Grounded, Begin
    PROVE  Grounded' /\ UNCHANGED <<files, crashes, faults>> /\ state.applied = 0 /\ state'.applied = 0
<1>1. /\ UNCHANGED <<files, bin, crashes, faults>>
      /\ phase' = "apply" /\ todo' = Files /\ tx' = Len(backups) + 1 /\ state.applied < bin
      /\ state' = [state EXCEPT !.status = "in_progress", !.pkg = TRUE, !.backup = Len(backups) + 1]
  BY DEF Begin, envVars
<1>2. state.applied = 0 /\ bin = 1
  BY <1>1, Alone
<1>3. state'.applied = 0 /\ state'.status = "in_progress"
  BY <1>1, <1>2, Positions DEF States
<1>4. /\ Len(backups') = Len(backups) + 1
      /\ backups'[Len(backups) + 1] = [files |-> files, prev |-> state]
      /\ \A i \in 1 .. Len(backups) : backups'[i] = backups[i]
  <2>1. backups \in Seq(Backup) /\ [files |-> files, prev |-> state] \in Backup
    BY Positions DEF Backup
  <2> QED
    BY <2>1, BackupAdded DEF Begin
<1>5. ASSUME NEW i \in 1 .. Len(backups') PROVE backups'[i].prev.applied = 0
  <2>1. CASE i \in 1 .. Len(backups)
    BY <1>4, <2>1 DEF Grounded
  <2>2. CASE i = Len(backups) + 1
    <3>1. backups'[i].prev = state
      BY <1>4, <2>2
    <3> QED
      BY <1>2, <3>1
  <2> QED
    BY <1>4, <2>1, <2>2, Alone
<1>6. AppliedSoFar'
  BY <1>1, LoopBegins
<1> QED
  BY <1>1, <1>2, <1>3, <1>5, <1>6 DEF Grounded, InProgress

\* A loop over the files goes on while the record says in_progress.
LEMMA FilesGround ==
    ASSUME Typed, Grounded, RepairFile \/ ApplyFile \/ RollbackFile
    PROVE  Grounded' /\ UNCHANGED <<state, backups, crashes>> /\ state.applied = 0
<1>1. /\ UNCHANGED <<state, backups, phase, bin, tx, crashes>>
      /\ phase \in {"repair", "apply", "rollback"}
  BY DEF RepairFile, ApplyFile, RollbackFile, envVars
<1>2. InProgress /\ state.applied = 0
  BY <1>1, Positions DEF Grounded
<1>3. InProgress'
  BY <1>1, <1>2 DEF InProgress
<1>4. phase = "apply" => AppliedSoFar'
  <2> SUFFICES ASSUME phase = "apply" PROVE AppliedSoFar'
    OBVIOUS
  <2>1. AppliedSoFar /\ ApplyFile
    BY DEF Grounded, RepairFile, RollbackFile
  <2>2. PICK f \in todo : files' = [files EXCEPT ![f] = Applied(f)] /\ todo' = todo \ {f}
    BY <2>1 DEF ApplyFile, NextToApply
  <2>3. files \in Contents /\ todo \subseteq Files
    BY Positions
  <2>4. /\ f \in Managed => Applied(f) = "package"
        /\ f \in Created => Applied(f) # "absent"
        /\ f \in Deleted => Applied(f) = "absent"
    BY FilesDisjoint DEF Applied
  <2>5. /\ files'[f] = Applied(f)
        /\ \A g \in Files : g # f => files'[g] = files[g]
    BY <2>2, <2>3 DEF Contents
  <2> QED
    BY <2>1, <2>2, <2>4, <2>5 DEF AppliedSoFar, Files
<1> QED
  BY <1>1, <1>2, <1>3, <1>4 DEF Grounded

LEMMA CommitGround ==
    ASSUME Typed, Grounded, Commit
    PROVE  /\ Grounded' /\ UNCHANGED <<files, backups, crashes, faults>>
           /\ state'.applied = 1 => state.applied = 1 \/ NewConfig
           /\ state.applied = 1 => state'.applied = 1
<1>1. /\ UNCHANGED <<files, backups, bin, crashes, faults>>
      /\ tx' = 0 /\ phase' = "serve" /\ phase = "commit"
  BY DEF Commit, Goto
<1>2. CASE tx = 0
  <2>1. state' = state
    BY <1>2 DEF Commit
  <2> QED
    BY <1>1, <2>1 DEF Grounded, InProgress
<1>3. CASE tx # 0
  <2>1. state' = [status |-> "success", applied |-> bin, pkg |-> TRUE, backup |-> tx] /\ bin = 1 /\ NewConfig
    BY <1>1, <1>3 DEF Commit, Grounded
  <2>2. state'.applied = 1 /\ state'.status = "success"
    BY <2>1
  <2> QED
    BY <1>1, <2>1, <2>2 DEF Grounded, InProgress
<1> QED
  BY <1>2, <1>3

\* The steps of the server and of the guard that write no configuration: no
\* start is under way before them or none after them.
LEMMA GuardGround ==
    ASSUME Typed, Grounded,
           \/ StartServer \/ ServerStops \/ InstallByHand \/ CrashAll \/ Update
           \/ WriteInstalling \/ InstallCandidate \/ WriteTesting \/ StartCandidate
           \/ CandidatePasses \/ CandidateFails \/ WriteVerified \/ SaveInstalled \/ GuardStepFails
           \/ RecoverAbandoned \/ UndoConfigFails \/ UndoBinary \/ WriteRolledBack
    PROVE  Grounded' /\ UNCHANGED <<files, state, backups>>
<1>1. UNCHANGED <<files, state, backups>>
  BY DEF StartServer, StartAs, ServerStops, Stop, InstallByHand, CrashAll, Update, WriteInstalling,
         InstallCandidate, WriteTesting, StartCandidate, CandidatePasses, CandidateFails,
         WriteVerified, SaveInstalled, GuardStepFails, RecoverAbandoned, UndoConfigFails, UndoBinary,
         WriteRolledBack, GuardWrites, diskVars, cuVars
<1>2. \/ UNCHANGED <<phase, tx, bin, todo>>
      \/ tx' = 0 /\ phase' \in {"down", "prepare"}
  <2>1. CASE StartServer \/ ServerStops \/ CrashAll \/ Update \/ StartCandidate \/ CandidatePasses
              \/ CandidateFails
    BY <2>1, Alone
    DEF StartServer, StartAs, ServerStops, Stop, CrashAll, Update, StartCandidate, CandidatePasses,
        CandidateFails, Goto
  <2>2. CASE InstallByHand \/ WriteInstalling \/ InstallCandidate \/ WriteTesting \/ WriteVerified
              \/ SaveInstalled \/ UndoBinary \/ WriteRolledBack
    BY <2>2
    DEF InstallByHand, WriteInstalling, InstallCandidate, WriteTesting, WriteVerified, SaveInstalled,
        UndoBinary, WriteRolledBack, GuardWrites, cuVars, procVars
  <2>3. CASE GuardStepFails \/ RecoverAbandoned \/ UndoConfigFails
    BY <2>3, Alone DEF GuardStepFails, RecoverAbandoned, UndoConfigFails
  <2> QED
    BY <2>1, <2>2, <2>3
<1>3. InProgress' = InProgress /\ NewConfig' = NewConfig
  BY <1>1, DiskKept
<1>4. todo' = todo => (AppliedSoFar => AppliedSoFar')
  BY <1>1, LoopKept
<1> QED
  BY <1>1, <1>2, <1>3, <1>4 DEF Grounded

LEMMA EditGround ==
    ASSUME Typed, Grounded, UserEdits
    PROVE  Grounded' /\ UNCHANGED <<state, crashes>> /\ (NewConfig => NewConfig')
<1>1. UNCHANGED <<state, backups, phase, bin, tx, crashes>> /\ phase = "serve" /\ tx = 0
  BY Alone DEF UserEdits, Edit, procVars
<1>2. PICK f \in Managed :
        files' = [files EXCEPT ![f] = IF @ \in {"user", "edited"} THEN "edited" ELSE "package_edited"]
  BY DEF UserEdits, Edit
<1>3. files \in Contents
  BY Positions
<1>4. NewConfig => NewConfig'
  BY <1>2, <1>3, FilesDisjoint DEF NewConfig, Contents, Files
<1> QED
  BY <1>1, <1>4 DEF Grounded, InProgress

LEMMA UndoGround ==
    ASSUME Typed, Grounded, UndoFile \/ UndoRecord
    PROVE  Grounded' /\ UNCHANGED crashes
<1>1. UNCHANGED <<backups, phase, bin, tx, crashes>> /\ phase = "down" /\ tx = 0
  BY Alone DEF UndoFile, UndoRecord, procVars, envVars
<1>2. CASE UndoFile
  <2>1. state' = state
    BY <1>2 DEF UndoFile
  <2> QED
    BY <1>1, <2>1 DEF Grounded, InProgress
<1>3. CASE UndoRecord
  <2>1. PICK b \in 1 .. Len(backups) : b = state.backup
    BY <1>3, Positions DEF UndoRecord
  <2>2. state'.applied = 0
    BY <1>3, <2>1 DEF UndoRecord, Grounded
  <2> QED
    BY <1>1, <2>2 DEF Grounded
<1> QED
  BY <1>2, <1>3

LEMMA GroundedInductive ==
    ASSUME Typed, Grounded, [Next]_vars PROVE Grounded'
<1>1. CASE UNCHANGED vars
  BY <1>1 DEF vars, cuVars, diskVars, procVars, Grounded, InProgress, AppliedSoFar, NewConfig
<1>2. CASE ServerUpgrades \/ ServerHasNoPackage
  BY <1>2, MovesGround, FailuresGround, BeginGround, FilesGround
  DEF ServerUpgrades, ServerHasNoPackage, UpgradeStep
<1>3. CASE ServerCommits
  BY <1>3, CommitGround DEF ServerCommits
<1>4. CASE GuardStep
  BY <1>4, GuardGround, UndoGround DEF GuardStep
<1> QED
  BY <1>1, <1>2, <1>3, <1>4, GuardGround, EditGround DEF Next, ServerStep

\* A start changes nothing of the transaction.
LEMMA ServerWritten ==
    ASSUME Typed, Grounded, Written, ServerStep
    PROVE  /\ UNCHANGED <<exe, guard, updates>> /\ guard \in {"none", "watch"}
           /\ txn' = txn \/ (Verified /\ txn'.status = "none")
           /\ Written'
<1>1. /\ UNCHANGED <<exe, guard, updates>> /\ guard \in {"none", "watch"}
      /\ txn' = txn \/ (Verified /\ txn'.status = "none")
  <2>1. CASE ServerUpgrades \/ ServerHasNoPackage
    BY <2>1 DEF ServerUpgrades, ServerHasNoPackage, Starting, guardVars
  <2>2. CASE ServerCommits
    <3>1. txn \in Transactions
      BY Values
    <3> QED
      BY <2>2, <3>1 DEF ServerCommits, Starting, Verified, Transactions
  <2> QED
    BY <2>1, <2>2 DEF ServerStep
<1> QED
  BY <1>1 DEF Written, Unfinished, Undoing, Verified

\* The steps of the guard, and what they leave of the transaction.
LEMMA GuardWritten ==
    ASSUME Typed, Grounded, Written,
           \/ WriteInstalling \/ InstallCandidate \/ WriteTesting \/ StartCandidate
           \/ CandidatePasses \/ CandidateFails \/ WriteVerified \/ SaveInstalled \/ GuardStepFails
    PROVE  Written'
<1>1. txn \in Transactions /\ faults \in Nat /\ updates \in Nat
  BY Values DEF Typed, TypeOK
<1>2. /\ UNCHANGED <<state, updates>> /\ guard # "none" /\ updates # 0
      /\ faults' = faults \/ faults' = faults + 1
  BY DEF WriteInstalling, InstallCandidate, WriteTesting, StartCandidate, CandidatePasses,
         CandidateFails, WriteVerified, SaveInstalled, GuardStepFails, GuardWrites, diskVars,
         envVars, Fault, Written
<1>3. CASE WriteInstalling \/ InstallCandidate \/ WriteTesting \/ WriteVerified \/ SaveInstalled
  BY <1>1, <1>2, <1>3
  DEF WriteInstalling, InstallCandidate, WriteTesting, WriteVerified, SaveInstalled, SetStatus,
      Written, Unfinished, Undoing, Verified, Transactions, GuardWrites, diskVars
<1>4. CASE StartCandidate \/ CandidatePasses
  BY <1>1, <1>2, <1>4, Alone DEF StartCandidate, CandidatePasses, Written, Unfinished, Undoing, Verified
<1>5. CASE CandidateFails
  BY <1>1, <1>2, <1>5 DEF CandidateFails, BeginUndo, Written, Unfinished, Undoing, Verified
<1>6. CASE GuardStepFails
  <2>1. faults' = faults + 1 /\ txn' = txn /\ guard' \in {"undo_files", "undo_binary"}
    BY <1>6 DEF GuardStepFails, Fault, BeginUndo
  <2>2. Unfinished \/ Verified
    BY <1>6 DEF GuardStepFails, Written
  <2> QED
    BY <1>1, <1>2, <2>1, <2>2 DEF Written, Unfinished, Undoing, Verified
<1> QED
  BY <1>3, <1>4, <1>5, <1>6

LEMMA UndoWritten ==
    ASSUME Typed, Grounded, Written,
           \/ RecoverAbandoned \/ UndoFile \/ UndoRecord \/ UndoConfigFails \/ UndoBinary
           \/ WriteRolledBack
    PROVE  Written'
<1>1. txn \in Transactions /\ faults \in Nat
  BY Values
<1>2. UNCHANGED updates /\ updates # 0 /\ (faults' = faults \/ faults' = faults + 1)
  BY DEF RecoverAbandoned, UndoFile, UndoRecord, UndoConfigFails, UndoBinary, WriteRolledBack,
         GuardWrites, guardVars, envVars, Fault, Written, Unfinished
<1>3. guard' \in Undoing \cup {"none"}
  BY DEF RecoverAbandoned, BeginUndo, UndoFile, UndoRecord, UndoConfigFails, UndoBinary,
         WriteRolledBack, guardVars, Undoing
<1>4. guard' \in Undoing => txn' = txn /\ (Unfinished \/ (Verified /\ faults > 0))
  BY DEF RecoverAbandoned, UndoFile, UndoRecord, UndoConfigFails, UndoBinary, WriteRolledBack,
         guardVars, Undoing, Written
<1> QED
  BY <1>1, <1>2, <1>3, <1>4 DEF Written, Unfinished, Undoing, Verified

LEMMA WrittenInductive ==
    ASSUME Typed, Grounded, Written, [Next]_vars PROVE Written'
<1>1. CASE UNCHANGED vars
  BY <1>1 DEF vars, cuVars, diskVars, envVars, guardVars, Written, Unfinished, Undoing, Verified
<1>2. CASE ServerStep
  BY <1>2, ServerWritten
<1>3. CASE GuardStep
  BY <1>3, GuardWritten, UndoWritten DEF GuardStep
<1>4. CASE StartServer \/ ServerStops \/ UserEdits
  BY <1>4, Alone
  DEF StartServer, StartAs, ServerStops, Stop, UserEdits, Edit, guardVars, diskVars, envVars,
      Written, Unfinished, Undoing, Verified
<1>5. CASE InstallByHand
  BY <1>5 DEF InstallByHand, cuVars, diskVars, envVars, Written, Unfinished, Undoing, Verified
<1>6. CASE CrashAll
  <2>1. UNCHANGED <<exe, txn, updates>> /\ guard' = "none"
    BY <1>6 DEF CrashAll
  <2> QED
    BY <2>1 DEF Written, Undoing
<1>7. CASE Update
  <2>1. updates' = updates + 1 /\ guard' = "staged" /\ txn'.status = "staged" /\ updates \in Nat
    BY <1>7 DEF Update, Typed, TypeOK
  <2> QED
    BY <2>1 DEF Written, Undoing
<1>8. CASE CandidateFails
  BY <1>8, GuardWritten
<1>9. CASE RecoverAbandoned
  BY <1>9, UndoWritten
<1> QED
  BY <1>1, <1>2, <1>3, <1>4, <1>5, <1>6, <1>7, <1>8, <1>9 DEF Next

\* What one step leaves of the schema and of the configuration when no start is
\* interrupted by it: an upgrade works only where the schema is not applied.
LEMMA StartKeepsWhole ==
    ASSUME Typed, Grounded, Written, ServerStep
    PROVE  /\ state.applied = 1 => state'.applied = 1 /\ (NewConfig => NewConfig')
           /\ state.applied # 1 /\ state'.applied = 1 => NewConfig'
<1>1. CASE RequiresNothing \/ CheckRecord \/ RepairFails \/ UpToDate \/ ApplyFails \/ Validate
           \/ RollbackFails \/ LoadSucceeds \/ LoadFails \/ CommitFails
  BY <1>1, MovesGround, DiskKept
<1>2. CASE Repaired \/ BeginFails \/ PackageFails \/ RolledBack
  BY <1>2, FailuresGround
<1>3. CASE Begin
  BY <1>3, BeginGround
<1>4. CASE RepairFile \/ ApplyFile \/ RollbackFile
  BY <1>4, FilesGround
<1>5. CASE Commit
  <2>1. UNCHANGED files => NewConfig' = NewConfig
    BY DEF NewConfig
  <2> QED
    BY <1>5, <2>1, CommitGround
<1> QED
  BY <1>1, <1>2, <1>3, <1>4, <1>5
  DEF ServerStep, ServerUpgrades, ServerHasNoPackage, ServerCommits, UpgradeStep

LEMMA OneFaultInductive ==
    ASSUME Typed, Grounded, Written, OneFault, [Next]_vars PROVE OneFault'
<1> SUFFICES ASSUME crashes' = 0, faults' <= 1, updates' <= 1
             PROVE  /\ guard' = "none" /\ Verified' => exe' = 1 /\ state'.applied = 1
                    /\ \/ state'.applied = 1 => NewConfig'
                       \/ guard' \in Undoing
                       \/ guard' = "none" /\ (Unfinished' \/ txn'.status = "rolled_back")
  BY DEF OneFault, Undoing
<1>1. /\ txn \in Transactions /\ faults \in Nat /\ updates \in Nat /\ crashes \in Nat
      /\ state.applied \in {0, 1}
  BY Values DEF Typed, TypeOK, CUTypeOK
<1>2. CASE UNCHANGED vars
  BY <1>2 DEF vars, cuVars, diskVars, envVars, guardVars, OneFault, Unfinished, Verified, NewConfig
<1>3. CASE ServerStep
  <2>1. UNCHANGED <<exe, guard, updates, crashes>> /\ faults <= 1
    <3>1. UNCHANGED crashes
      BY <1>3, MovesGround, FailuresGround, BeginGround, FilesGround, CommitGround
      DEF ServerStep, ServerUpgrades, ServerHasNoPackage, ServerCommits, UpgradeStep
    <3>2. faults' \in Nat /\ faults' >= faults
      BY FaultsCount
    <3> QED
      BY <1>1, <1>3, <3>1, <3>2, ServerWritten
  <2>2. guard \in {"none", "watch"} /\ (txn' = txn \/ (Verified /\ txn'.status = "none"))
    BY <1>3, ServerWritten
  <2>3. /\ guard = "none" /\ Verified => exe = 1 /\ state.applied = 1
        /\ \/ state.applied = 1 => NewConfig
           \/ guard = "none" /\ (Unfinished \/ txn.status = "rolled_back")
    BY <2>1, <2>2 DEF OneFault, Undoing
  <2>4. /\ state.applied = 1 => state'.applied = 1 /\ (NewConfig => NewConfig')
        /\ state.applied # 1 /\ state'.applied = 1 => NewConfig'
    BY <1>3, StartKeepsWhole
  <2> QED
    BY <2>1, <2>2, <2>3, <2>4 DEF Unfinished, Verified
<1>4. CASE StartServer \/ ServerStops \/ InstallByHand
  <2>1. UNCHANGED <<txn, guard, updates, crashes, faults>> /\ (exe' = exe \/ exe' = 1)
    BY <1>4 DEF StartServer, StartAs, ServerStops, Stop, InstallByHand, guardVars, cuVars, envVars
  <2>2. UNCHANGED <<state, files>>
    BY <1>4, GuardGround
  <2> QED
    BY <2>1, <2>2 DEF OneFault, Unfinished, Verified, NewConfig, Undoing
<1>5. CASE UserEdits
  <2>1. UNCHANGED <<exe, txn, guard, updates, crashes, faults>>
    BY <1>5 DEF UserEdits, Edit
  <2>2. UNCHANGED state /\ (NewConfig => NewConfig')
    BY <1>5, EditGround
  <2> QED
    BY <2>1, <2>2 DEF OneFault, Unfinished, Verified, Undoing
<1>6. CASE CrashAll
  BY <1>1, <1>6 DEF CrashAll
<1>7. CASE Update
  <2>1. updates = 0 /\ guard' = "staged" /\ UNCHANGED <<crashes, faults>>
    BY <1>1, <1>7 DEF Update, envVars
  <2>2. UNCHANGED <<state, files>>
    BY <1>7, GuardGround
  <2>3. guard = "none" /\ txn.status = "none"
    BY <2>1 DEF Written
  <2>4. state.applied = 1 => NewConfig
    BY <2>1, <2>3 DEF OneFault, Unfinished, Undoing
  <2> QED
    BY <2>1, <2>2, <2>4 DEF NewConfig
<1>8. CASE GuardStep \/ RecoverAbandoned \/ CandidateFails
  <2>1. UNCHANGED <<crashes, updates>> /\ faults <= 1
    <3>1. UNCHANGED <<crashes, updates>>
      BY <1>8 DEF GuardStep, WriteInstalling, InstallCandidate, WriteTesting, StartCandidate,
         CandidatePasses, WriteVerified, SaveInstalled, GuardStepFails, UndoFile, UndoRecord,
         UndoConfigFails, UndoBinary, WriteRolledBack, GuardWrites, guardVars, envVars,
         RecoverAbandoned, CandidateFails
    <3>2. faults' \in Nat /\ faults' >= faults
      BY FaultsCount
    <3> QED
      BY <1>1, <3>1, <3>2
  <2>2. /\ guard = "none" /\ Verified => exe = 1 /\ state.applied = 1
        /\ \/ state.applied = 1 => NewConfig
           \/ guard \in Undoing
           \/ guard = "none" /\ (Unfinished \/ txn.status = "rolled_back")
    BY <2>1 DEF OneFault
  <2>3. CASE guard' \in Undoing
    BY <2>3 DEF Undoing
  <2>4. CASE WriteInstalling \/ InstallCandidate \/ WriteTesting \/ StartCandidate
             \/ CandidatePasses \/ WriteVerified \/ SaveInstalled
    <3>1. UNCHANGED <<state, files>>
      BY <2>4, GuardGround
    <3>2. guard \notin Undoing \cup {"none"}
      BY <2>4 DEF WriteInstalling, InstallCandidate, WriteTesting, StartCandidate, CandidatePasses,
                  WriteVerified, SaveInstalled, Undoing
    <3>3. state'.applied = 1 => NewConfig'
      BY <2>2, <3>1, <3>2 DEF NewConfig
    <3>4. guard' = "none" /\ Verified' => guard = "save" /\ exe' = exe
      BY <2>4 DEF WriteInstalling, InstallCandidate, WriteTesting, StartCandidate, CandidatePasses,
                  WriteVerified, SaveInstalled, Written, Verified
    <3> QED
      BY <3>1, <3>3, <3>4 DEF Written
  <2>5. CASE guard \in Undoing /\ guard' = "none" /\ (UndoBinary \/ WriteRolledBack)
    <3>1. /\ UNCHANGED <<state, files>>
          /\ \/ txn' = txn /\ faults' = faults + 1
             \/ txn'.status = "rolled_back"
      BY <1>1, <2>5, GuardGround DEF UndoBinary, WriteRolledBack, SetStatus, Fault, Transactions
    <3>2. Unfinished' \/ txn'.status = "rolled_back"
      BY <1>1, <2>1, <2>5, <3>1 DEF Written, Unfinished, Verified
    <3> QED
      BY <2>5, <3>2 DEF Unfinished, Verified
  <2>6. \/ guard' \in Undoing
        \/ WriteInstalling \/ InstallCandidate \/ WriteTesting \/ StartCandidate
        \/ CandidatePasses \/ WriteVerified \/ SaveInstalled
        \/ guard \in Undoing /\ guard' = "none" /\ (UndoBinary \/ WriteRolledBack)
    BY <1>8 DEF GuardStep, CandidateFails, GuardStepFails, RecoverAbandoned, BeginUndo, UndoFile,
         UndoRecord, UndoConfigFails, UndoBinary, WriteRolledBack, guardVars, Undoing
  <2> QED
    BY <2>3, <2>4, <2>5, <2>6
<1> QED
  BY <1>2, <1>3, <1>4, <1>5, <1>6, <1>7, <1>8 DEF Next

FaultInv == Typed /\ Grounded /\ Written /\ OneFault

LEMMA FaultInvCorrect == Spec => []FaultInv
<1>1. ASSUME Init PROVE FaultInv
  <2>1. Typed
    BY <1>1, InitTyped
  <2>2. /\ tx = 0 /\ phase = "down" /\ Len(backups) = 0 /\ ~InProgress /\ state.applied = 0
        /\ guard = "none" /\ txn.status = "none"
    BY <1>1 DEF Init, CUInit, FirstState, InProgress
  <2> QED
    BY <2>1, <2>2 DEF FaultInv, Grounded, Written, OneFault, Undoing, Verified
<1>2. ASSUME FaultInv, [Next]_vars PROVE FaultInv'
  BY <1>2, TypedInductive, GroundedInductive, WrittenInductive, OneFaultInductive DEF FaultInv
<1> QED
  BY <1>1, <1>2, PTL DEF Spec

-----------------------------------------------------------------------------
(* The properties.                                                          *)

\* Every variable of the update and of the upgrade has its type.
THEOREM TypeCorrect == Spec => []TypeOK
<1>1. IInv => TypeOK
  BY DEF IInv
<1> QED
  BY <1>1, InvariantCorrect, PTL

\* However often the processes are killed on the way, a server that serves has
\* loaded the package's files when the record says so and the user's when not.
THEOREM ServesWholeConfigCorrect == Spec => []ServesWholeConfig
<1>1. IInv => ServesWholeConfig
  BY Positions DEF IInv, Typed, NoFault, Placed, FilesMatch, Whole, ServesWholeConfig
<1> QED
  BY <1>1, InvariantCorrect, PTL

\* The old binary never serves with the new configuration.
THEOREM OldBinaryOldConfigCorrect == Spec => []OldBinaryOldConfig
<1>1. IInv => OldBinaryOldConfig
  BY Positions DEF IInv, Typed, NoFault, Placed, Matched, FilesMatch, Whole, OldBinaryOldConfig
<1> QED
  BY <1>1, InvariantCorrect, PTL

\* A verified update has its binary, its record and its files.
THEOREM VerifiedIsCompleteCorrect == Spec => []VerifiedIsComplete
<1>1. ASSUME IInv, txn.status = "verified", guard = "none", faults = 0 PROVE UpdateComplete
  <2>1. RecordsMean /\ Matched /\ FilesMatch
    BY <1>1 DEF IInv, NoFault
  <2>2. exe = 1 /\ state.applied = 1
    BY <1>1, <2>1 DEF Matched
  <2>3. Whole
    BY <1>1, <2>1, <2>2, RecordsSay DEF FilesMatch, Unfinished
  <2> QED
    BY <2>2, <2>3 DEF UpdateComplete, Whole
<1>2. IInv => VerifiedIsComplete
  BY <1>1 DEF VerifiedIsComplete
<1> QED
  BY <1>2, InvariantCorrect, PTL

\* So has one that was verified in spite of a failed write of the guard or of the
\* candidate, in the only update and without a crash.
THEOREM VerifiedAfterFaultCorrect == Spec => []VerifiedAfterFault
<1>1. ASSUME FaultInv, txn.status = "verified", guard = "none", crashes = 0, faults = 1, updates = 1
      PROVE  UpdateComplete
  BY <1>1 DEF FaultInv, OneFault, Verified, Unfinished, Undoing, UpdateComplete
<1>2. FaultInv => VerifiedAfterFault
  BY <1>1 DEF VerifiedAfterFault
<1> QED
  BY <1>2, FaultInvCorrect, PTL

\* No failed, interrupted or rolled back upgrade loses an edit.
THEOREM EditsSurviveCorrect == Spec => []EditsSurvive
<1>1. ASSUME IInv, phase = "serve", faults = 0 PROVE NoFault /\ ~InProgress /\ guard \in {"none", "watch"}
  BY <1>1, Positions DEF IInv, Typed, NoFault, FilesMatch
<1>2. ASSUME IInv, phase = "serve", faults = 0, ~budget.install PROVE KeptIn(files)
  <2>1. FirstOnly /\ FilesFound /\ Placed /\ Matched /\ RecordsMean
    BY <1>1, <1>2 DEF NoFault
  <2>2. CASE ~Updating
    BY <2>1, <2>2 DEF FilesFound
  <2>3. CASE Updating
    <3>1. guard = "watch" /\ tx = 0
      BY <1>1, <1>2, <2>1, <2>3 DEF Placed, Updating
    <3>2. state.applied \in {0, 1}
      BY <1>2, Values DEF IInv, Typed
    <3>3. ~txn.package \/ state.applied = 0 => files = before.files /\ KeptIn(before.files)
      BY <1>2, <2>1, <2>3, <3>1 DEF FilesFound
    <3>4. txn.package /\ state.applied = 1 => edited = {}
      BY <2>1, <2>3 DEF FilesFound
    <3> QED
      BY <3>2, <3>3, <3>4 DEF KeptIn
  <2> QED
    BY <2>2, <2>3
<1>3. ASSUME IInv, phase = "serve", faults = 0, updates = 0 PROVE KeptIn(files)
  BY <1>1, <1>3 DEF IInv, BeforeUpdates
<1>4. IInv => EditsSurvive
  BY <1>2, <1>3 DEF EditsSurvive, KeptIn
<1> QED
  BY <1>4, InvariantCorrect, PTL

\* After a rollback the old binary serves the files and the schema it had.
THEOREM RollbackIsExactCorrect == Spec => []RollbackIsExact
<1>1. IInv => RollbackIsExact
  BY Positions
  DEF IInv, Typed, NoFault, Placed, FirstOnly, FilesFound, Updating, Unfinished, RollbackIsExact
<1> QED
  BY <1>1, InvariantCorrect, PTL

=============================================================================
